---- MODULE Spec2Model ----
(***************************************************************************)
(* Storage abstraction of the tab-sync backend: the DatabaseInterface      *)
(* contract, its backends (PostgresDatabase, SupabaseDatabase,             *)
(* LocalDatabase), the backend selector NewDatabase and the connection     *)
(* lifecycle managers (GetDatabase pool, VercelOptimizer keyed cache).     *)
(*                                                                         *)
(* Tables are sequences of rows in insertion order.  Timestamps are        *)
(* natural numbers read from the clock `now`; NOW() and time.Now() read    *)
(* the clock, Tick advances it.  Every storage call is one action; the     *)
(* call, its arguments, its result and what it saw before are recorded in  *)
(* `last`, so that properties of a call are state predicates.              *)
(***************************************************************************)
EXTENDS Integers, Sequences, FiniteSets, TLC

\* ------------------------------------------------------------------ bounds
MaxTime == 2
MaxId == 3
MaxInstances == 2
MaxClock == 1
MaxCallers == 2
MaxPoolTime == 4

\* ---------------------------------------------------- program constants
\* idle thresholds in units of ten minutes
PoolExpiry == 3
PoolIdle == 1
CacheIdle == 1

\* ----------------------------------------------------------------- helpers
\* globalPool == nil
NoPool == [instance |-> 0]

Min(S) == CHOOSE x \in S : \A y \in S : x <= y

\* the goroutines that call the store concurrently
Goroutines == 1..MaxCallers
Idle == [pc |-> "idle"]

\* no construction of a PostgresDatabase is in progress
NotConnecting == [pc |-> "idle"]

VARIABLES
  now,            \* the wall clock / NOW()
  nextId,         \* next identifier handed out by gen_random_uuid()/uuid.New()
  last,           \* the last call: op, arguments, result, pre-state
  backend,        \* the backend the snapshot calls go to
  pgSnapshots,    \* Structured-Store table snapshots
  sbSnapshots,    \* REST-Store resource /snapshots
  localSnapshots, \* LocalDatabase: user id -> contents of snapshots_<user>.json
  env,            \* process environment: VERCEL_ENV, VERCEL_URL, AWS_LAMBDA_FUNCTION_NAME
  instances,      \* every backend instance constructed so far, by number
  globalPool,     \* pool.go globalPool: NoPool or [instance, config, lastUsed]
  voConnections,  \* VercelOptimizer.connections: config key -> instance
  voLastUsed,     \* VercelOptimizer.lastUsed: config key -> time
  pgSpaces,       \* Structured-Store table spaces
  pgCollections,  \* Structured-Store table collections
  pgItems,        \* Structured-Store table collection_items
  users,          \* table users / users.json of the backend in use
  organizations,  \* table organizations / organizations.json of the backend in use
  memberships,    \* table organization_memberships / memberships.json of the backend in use
  permissions,    \* table space_permissions / space_permissions.json of the backend in use
  callers,        \* concurrent calls in flight: goroutine -> position, arguments, result
  locks,          \* poolMutex and VercelOptimizer.mu: the goroutine holding it, 0 when free
  invitations,    \* table organization_invitations / invitations.json of the backend in use
  connecting      \* NewPostgresDatabase in progress: loop position, handles opened and closed

snapVars == <<backend, pgSnapshots, sbSnapshots, localSnapshots>>

lifeVars == <<env, instances, globalPool, voConnections, voLastUsed>>

storeVars == <<pgSpaces, pgCollections, pgItems>>

orgVars == <<users, organizations, memberships>>

restVars == <<locks, invitations, connecting>>

moreVars == <<callers, restVars>>

auxVars == <<permissions, moreVars>>

vars == <<now, nextId, last, snapVars, lifeVars, storeVars, orgVars, auxVars>>

Tick ==
  /\ now < MaxTime
  /\ now' = now + 1
  /\ UNCHANGED <<nextId, last, snapVars, lifeVars, storeVars, orgVars, auxVars>>

\* the lifecycle managers hold nothing before the first acquisition
InitLifeVars ==
  /\ env = [VERCEL_ENV |-> "", VERCEL_URL |-> "", AWS_LAMBDA_FUNCTION_NAME |-> ""]
  /\ instances = <<>>
  /\ globalPool = NoPool
  /\ voConnections = <<>>
  /\ voLastUsed = <<>>

\* no space, collection or item has been created
InitStoreVars ==
  /\ pgSpaces = <<>>
  /\ pgCollections = <<>>
  /\ pgItems = <<>>

\* no user, organization or membership has been stored
InitOrgVars ==
  /\ users = <<>>
  /\ organizations = <<>>
  /\ memberships = <<>>

\* no permission has been stored
InitAuxVars ==
  /\ permissions = <<>>
  /\ callers = [g \in Goroutines |-> Idle]
  /\ locks = [poolMutex |-> 0, mu |-> 0]
  /\ invitations = <<>>
  /\ connecting = NotConnecting

\* =================================================================
\* Snapshots
\* =================================================================
Users == {"u1", "u2"}
SnapshotNames == {"work"}

\* A tab group carrying n tabs (models.TabGroup with Tabs of length n).
Group(n) == [tabs |-> [i \in 1..n |-> i]]

TabGroupInputs == { <<>>, <<Group(1)>>, <<Group(2), Group(3)>> }

RECURSIVE CountTabs(_, _)
\* for _, group := range tabGroups { tabCount += len(group.Tabs) }
CountTabs(tabGroups, i) ==
  IF i > Len(tabGroups) THEN 0
  ELSE Len(tabGroups[i].tabs) + CountTabs(tabGroups, i + 1)

HasKey(rows, u, n) == \E i \in 1..Len(rows) : rows[i].user_id = u /\ rows[i].name = n

SnapshotRow(id, u, n, tg, gc, tc, created, updated) ==
  [id |-> id, user_id |-> u, name |-> n, tab_groups |-> tg,
   group_count |-> gc, tab_count |-> tc, created_at |-> created, updated_at |-> updated]

\* ---- Structured-Store: INSERT ... ON CONFLICT (user_id, name) DO UPDATE
PgUpsertSnapshot(rows, id, u, n, tg, gc, tc, t) ==
  IF HasKey(rows, u, n)
  THEN [i \in 1..Len(rows) |->
          IF rows[i].user_id = u /\ rows[i].name = n
          THEN [rows[i] EXCEPT !.tab_groups = tg, !.group_count = gc,
                               !.tab_count = tc, !.updated_at = t]
          ELSE rows[i]]
  ELSE Append(rows, SnapshotRow(id, u, n, tg, gc, tc, t, t))

PgSaveSnapshot(u, n, tg, execOk) ==
  /\ backend = "postgres"
  /\ nextId <= MaxId
  /\ LET groupCount == Len(tg)
         tabCount == CountTabs(tg, 1)
     IN IF execOk
        THEN /\ pgSnapshots' = PgUpsertSnapshot(pgSnapshots, nextId, u, n, tg, groupCount, tabCount, now)
             /\ nextId' = IF HasKey(pgSnapshots, u, n) THEN nextId ELSE nextId + 1
             /\ last' = [op |-> "SaveSnapshot", backend |-> "postgres", user |-> u, name |-> n,
                         tabGroups |-> tg, result |-> "ok", existed |-> HasKey(pgSnapshots, u, n)]
        ELSE /\ UNCHANGED <<pgSnapshots, nextId>>
             /\ last' = [op |-> "SaveSnapshot", backend |-> "postgres", user |-> u, name |-> n,
                         tabGroups |-> tg, result |-> "error", existed |-> HasKey(pgSnapshots, u, n)]
  /\ UNCHANGED <<now, backend, sbSnapshots, localSnapshots, lifeVars, storeVars, orgVars, auxVars>>

\* ---- REST-Store
\* PATCH /snapshots?user_id=eq.u&name=eq.n : every matching row takes the payload
RestPatchSnapshots(rows, u, n, tg, gc, tc, t) ==
  [i \in 1..Len(rows) |->
     IF rows[i].user_id = u /\ rows[i].name = n
     THEN [rows[i] EXCEPT !.tab_groups = tg, !.group_count = gc,
                          !.tab_count = tc, !.updated_at = t]
     ELSE rows[i]]

\* POST /snapshots on a table without the unique key
RestPostSnapshotUnconstrained(rows, u, n) == TRUE

\* POST /snapshots : the table has UNIQUE(user_id, name); a duplicate key is a 409
RestPostSnapshotAccepted(rows, u, n) == ~HasKey(rows, u, n)

\* getSnapshotByName: the GET fails, or finds no row, or yields the first row
GetSnapshotByNameFound(rows, u, n, getOk) == getOk /\ HasKey(rows, u, n)

SbSaveSnapshot(u, n, tg, getOk, writeOk) ==
  /\ backend = "supabase"
  /\ nextId <= MaxId
  /\ LET groupCount == Len(tg)
         tabCount == CountTabs(tg, 1)
         existed == HasKey(sbSnapshots, u, n)
         rec(res) == [op |-> "SaveSnapshot", backend |-> "supabase", user |-> u, name |-> n,
                      tabGroups |-> tg, result |-> res, existed |-> existed]
     IN IF GetSnapshotByNameFound(sbSnapshots, u, n, getOk)
        THEN IF writeOk
             THEN /\ sbSnapshots' = RestPatchSnapshots(sbSnapshots, u, n, tg, groupCount, tabCount, now)
                  /\ last' = rec("ok")
                  /\ UNCHANGED nextId
             ELSE /\ UNCHANGED <<sbSnapshots, nextId>>
                  /\ last' = rec("error")
        ELSE IF writeOk /\ RestPostSnapshotAccepted(sbSnapshots, u, n)
             THEN /\ sbSnapshots' = Append(sbSnapshots,
                                      SnapshotRow(nextId, u, n, tg, groupCount, tabCount, now, now))
                  /\ nextId' = nextId + 1
                  /\ last' = rec("ok")
             ELSE /\ UNCHANGED <<sbSnapshots, nextId>>
                  /\ last' = rec("error")
  /\ UNCHANGED <<now, backend, pgSnapshots, localSnapshots, lifeVars, storeVars, orgVars, auxVars>>

\* ---- LocalDatabase
\* saveSnapshot without the lookup by name: the snapshot is always appended
LocalAlwaysAppend(snapshots, snapshot) == Append(snapshots, snapshot)

\* saveSnapshot: replace the first snapshot of that name in the user's file, else append
LocalReplaceOrAppend(snapshots, snapshot) ==
  LET hits == {i \in 1..Len(snapshots) : snapshots[i].name = snapshot.name}
  IN IF hits # {}
     THEN [snapshots EXCEPT ![Min(hits)] = snapshot]
     ELSE Append(snapshots, snapshot)

LocalSaveSnapshot(u, n, tg, loadOk, writeOk) ==
  /\ backend = "local"
  /\ nextId <= MaxId
  /\ LET snapshot == SnapshotRow(nextId, u, n, tg, Len(tg), CountTabs(tg, 1), now, now)
         existed == HasKey(localSnapshots[u], u, n)
         rec(res) == [op |-> "SaveSnapshot", backend |-> "local", user |-> u, name |-> n,
                      tabGroups |-> tg, result |-> res, existed |-> existed]
     IN /\ nextId' = nextId + 1
        /\ IF loadOk /\ writeOk
           THEN /\ localSnapshots' = [localSnapshots EXCEPT ![u] = LocalReplaceOrAppend(@, snapshot)]
                /\ last' = rec("ok")
           ELSE /\ UNCHANGED localSnapshots
                /\ last' = rec("error")
  /\ UNCHANGED <<now, backend, pgSnapshots, sbSnapshots, lifeVars, storeVars, orgVars, auxVars>>

InitSnapVars ==
  /\ pgSnapshots = <<>>
  /\ sbSnapshots = <<>>
  /\ localSnapshots = [u \in Users |-> <<>>]

InitSnapshot ==
  /\ now = 0
  /\ nextId = 1
  /\ last = [op |-> "init"]
  /\ backend \in {"postgres", "supabase", "local"}
  /\ InitSnapVars
  /\ InitLifeVars
  /\ InitStoreVars
  /\ InitOrgVars
  /\ InitAuxVars

NextSnapshot ==
  \/ Tick
  \/ \E u \in Users, n \in SnapshotNames, tg \in TabGroupInputs, ok \in BOOLEAN :
       PgSaveSnapshot(u, n, tg, ok)
  \/ \E u \in Users, n \in SnapshotNames, tg \in TabGroupInputs, getOk \in BOOLEAN, writeOk \in BOOLEAN :
       SbSaveSnapshot(u, n, tg, getOk, writeOk)
  \/ \E u \in Users, n \in SnapshotNames, tg \in TabGroupInputs, loadOk \in BOOLEAN, writeOk \in BOOLEAN :
       LocalSaveSnapshot(u, n, tg, loadOk, writeOk)

SpecSnapshot == InitSnapshot /\ [][NextSnapshot]_vars

\* The rows of the backend the snapshot calls go to.
SnapshotRowsOf(b, u) ==
  IF b = "postgres" THEN pgSnapshots
  ELSE IF b = "supabase" THEN sbSnapshots
  ELSE localSnapshots[u]

RowsFor(b, u, n) ==
  {i \in 1..Len(SnapshotRowsOf(b, u)) :
     SnapshotRowsOf(b, u)[i].user_id = u /\ SnapshotRowsOf(b, u)[i].name = n}

\* The number of tabs of a list of tab groups, counted as (group, tab) positions.
TabPositions(tg) == {<<g, t>> \in (1..Len(tg)) \X (1..3) : t <= Len(tg[g].tabs)}

\* C1: on every backend there is at most one snapshot row per (user_id, name),
\* and after a successful SaveSnapshot(user, name, tabGroups) exactly one row
\* holds that pair, with the tab_groups of that call, group_count the number of
\* groups and tab_count the total number of tabs.
C1_SnapshotUpsert ==
  /\ \A b \in {"postgres", "supabase", "local"}, u \in Users, n \in SnapshotNames :
       Cardinality(RowsFor(b, u, n)) <= 1
  /\ (last.op = "SaveSnapshot" /\ last.result = "ok") =>
       /\ Cardinality(RowsFor(last.backend, last.user, last.name)) = 1
       /\ \A i \in RowsFor(last.backend, last.user, last.name) :
            LET row == SnapshotRowsOf(last.backend, last.user)[i]
            IN /\ row.tab_groups = last.tabGroups
               /\ row.group_count = Len(last.tabGroups)
               /\ row.tab_count = Cardinality(TabPositions(last.tabGroups))

\* a second save of an existing (user, name) has replaced the row's tab groups
C1_Witness ==
  /\ last.op = "SaveSnapshot" /\ last.result = "ok" /\ last.existed
  /\ last.backend = "local"
  /\ last.tabGroups = <<Group(1)>>
  /\ \E i \in RowsFor("local", last.user, last.name) :
       localSnapshots[last.user][i].tab_count = 1


\* =================================================================
\* Backend selector and connection lifecycle
\* =================================================================
\* Configuration strings are sequences of characters, "" is <<>>.
Empty == <<>>
DsnA == <<"p","g",":","/","/","a",".","x","/","d","b">>
DsnB == <<"p","g",":","/","/","b",".","x","/","d","b">>
UrlA == <<"s","b",".","c","o">>
KeyA == <<"k","1">>

DatabaseConfig(dsn, url, key, debug) ==
  [PostgresDSN |-> dsn, SupabaseURL |-> url, SupabaseKey |-> key, Debug |-> debug]

\* nothing configured, an incomplete REST descriptor, each store alone, both stores
Configs ==
  { DatabaseConfig(Empty, Empty, Empty, FALSE),
    DatabaseConfig(Empty, UrlA, Empty, FALSE),
    DatabaseConfig(DsnA, Empty, Empty, FALSE),
    DatabaseConfig(DsnB, Empty, Empty, FALSE),
    DatabaseConfig(Empty, UrlA, KeyA, FALSE),
    DatabaseConfig(DsnA, UrlA, KeyA, FALSE),
    DatabaseConfig(DsnA, UrlA, KeyA, TRUE) }

EnvValues == {"", "set"}

Envs == [VERCEL_ENV : EnvValues, VERCEL_URL : EnvValues, AWS_LAMBDA_FUNCTION_NAME : EnvValues]

\* a long-lived process, and a serverless function
LifecycleEnvs ==
  { [VERCEL_ENV |-> "", VERCEL_URL |-> "", AWS_LAMBDA_FUNCTION_NAME |-> ""],
    [VERCEL_ENV |-> "set", VERCEL_URL |-> "", AWS_LAMBDA_FUNCTION_NAME |-> ""] }

AllConfigs ==
  [PostgresDSN : {Empty, DsnA, DsnB}, SupabaseURL : {Empty, UrlA},
   SupabaseKey : {Empty, KeyA}, Debug : BOOLEAN]

\* isVercelEnvironment / IsVercelEnvironment
isVercelEnvironment(e) ==
  e.VERCEL_ENV # "" \/ e.VERCEL_URL # "" \/ e.AWS_LAMBDA_FUNCTION_NAME # ""

\* What each of the four connection variants of NewPostgresDatabase meets.
StrategyOutcomes ==
  { <<"ok", "ok", "ok", "ok">>,
    <<"ping_fail", "open_fail", "ok", "ok">>,
    <<"ping_fail", "ping_fail", "open_fail", "ping_fail">> }

\* NewPostgresDatabase: the number of the first variant that opens and answers
\* the ping, 0 when every variant fails (panic)
NewPostgresDatabase(outcomes) ==
  LET good == {i \in 1..Len(outcomes) : outcomes[i] = "ok"}
  IN IF good = {} THEN 0 ELSE Min(good)

\* NewDatabase with the precedence of the two deployment modes exchanged
NewDatabaseSwapped(vercel, config) ==
  IF ~vercel
  THEN IF config.SupabaseURL # Empty /\ config.SupabaseKey # Empty THEN "supabase"
       ELSE IF config.PostgresDSN # Empty THEN "postgres"
       ELSE "panic"
  ELSE IF config.PostgresDSN # Empty THEN "postgres"
       ELSE IF config.SupabaseURL # Empty /\ config.SupabaseKey # Empty THEN "supabase"
       ELSE "panic"

\* NewDatabase that falls back to the local file store when nothing is configured
NewDatabaseLocalFallback(vercel, config) ==
  IF config.PostgresDSN # Empty THEN "postgres"
  ELSE IF config.SupabaseURL # Empty /\ config.SupabaseKey # Empty THEN "supabase"
  ELSE "local"

\* NewDatabase: the constructor it calls, "panic" when no backend is configured
NewDatabaseSelect(vercel, config) ==
  IF vercel
  THEN IF config.SupabaseURL # Empty /\ config.SupabaseKey # Empty THEN "supabase"
       ELSE IF config.PostgresDSN # Empty THEN "postgres"
       ELSE "panic"
  ELSE IF config.PostgresDSN # Empty THEN "postgres"
       ELSE IF config.SupabaseURL # Empty /\ config.SupabaseKey # Empty THEN "supabase"
       ELSE "panic"

\* NewDatabase: the kind of the instance returned, "panic" when construction
\* fails fatally (nothing configured, or every connection variant failed)
NewDatabase(vercel, config, outcomes) ==
  LET selected == NewDatabaseSelect(vercel, config)
  IN IF selected = "postgres" /\ NewPostgresDatabase(outcomes) = 0 THEN "panic"
     ELSE selected

Instance(kind, config) == [kind |-> kind, config |-> config, closed |-> FALSE]

\* Close(): a PostgresDatabase closes its handle, a SupabaseDatabase has nothing to close
CloseInstance(insts, i) == [insts EXCEPT ![i].closed = TRUE]

\* a HealthCheck that reports every instance as healthy
HealthCheckAlwaysOk(inst, netOk) == TRUE

\* HealthCheck(): Ping on a closed *sql.DB fails; otherwise the round trip decides
HealthCheck(inst, netOk) ==
  IF inst.kind = "postgres" /\ inst.closed THEN FALSE ELSE netOk

\* a call of NewDatabase by a caller that keeps the instance to itself
CallNewDatabase(config, outcomes) ==
  /\ LET vercel == isVercelEnvironment(env)
     IN last' = [op |-> "NewDatabase", config |-> config,
                 selected |-> NewDatabaseSelect(vercel, config),
                 result |-> NewDatabase(vercel, config, outcomes)]
  /\ UNCHANGED <<now, nextId, snapVars, lifeVars, storeVars, orgVars, auxVars>>

\* configEquals (Debug is not compared)
configEquals(a, b) ==
  /\ a.PostgresDSN = b.PostgresDSN
  /\ a.SupabaseURL = b.SupabaseURL
  /\ a.SupabaseKey = b.SupabaseKey

\* shouldRecreateConnection that trusts an instance it has not seen idle
shouldRecreateNoHealthCheck(pool, newConfig, netOk) ==
  IF pool = NoPool THEN TRUE
  ELSE IF ~configEquals(pool.config, newConfig) THEN TRUE
  ELSE now - pool.lastUsed > PoolExpiry

\* shouldRecreateConnection; the clock counts units of ten minutes
shouldRecreateConnection(pool, newConfig, netOk) ==
  IF pool = NoPool THEN TRUE
  ELSE IF ~configEquals(pool.config, newConfig) THEN TRUE
  ELSE IF now - pool.lastUsed > PoolExpiry THEN TRUE
  ELSE ~HealthCheck(instances[pool.instance], netOk)

\* GetOptimizedDatabase outside serverless compute: GetDatabase, under poolMutex
GetDatabase(config, outcomes, netOk) ==
  /\ ~isVercelEnvironment(env)
  /\ Len(instances) < MaxInstances
  /\ LET vercel == isVercelEnvironment(env)
         recreate == globalPool = NoPool \/ shouldRecreateConnection(globalPool, config, netOk)
         closedOld == IF globalPool # NoPool THEN CloseInstance(instances, globalPool.instance)
                      ELSE instances
         kind == NewDatabase(vercel, config, outcomes)
         rec(res, inst) == [op |-> "GetDatabase", config |-> config, result |-> res,
                            instance |-> inst, recreated |-> recreate, netOk |-> netOk,
                            pool |-> globalPool]
     IN IF recreate
        THEN IF kind = "panic"
             THEN /\ instances' = closedOld
                  /\ UNCHANGED globalPool
                  /\ last' = rec("panic", 0)
             ELSE /\ instances' = Append(closedOld, Instance(kind, config))
                  /\ globalPool' = [instance |-> Len(instances) + 1, config |-> config,
                                    lastUsed |-> now]
                  /\ last' = rec("ok", Len(instances) + 1)
        ELSE /\ globalPool' = [globalPool EXCEPT !.lastUsed = now]
             /\ UNCHANGED instances
             /\ last' = rec("ok", globalPool.instance)
  /\ UNCHANGED <<now, nextId, snapVars, storeVars, orgVars, env, voConnections, voLastUsed, auxVars>>

\* CleanupIdleConnections, under poolMutex
CleanupIdleConnections ==
  /\ IF globalPool # NoPool /\ now - globalPool.lastUsed > PoolIdle
     THEN /\ instances' = CloseInstance(instances, globalPool.instance)
          /\ globalPool' = NoPool
     ELSE UNCHANGED <<instances, globalPool>>
  /\ last' = [op |-> "CleanupIdleConnections"]
  /\ UNCHANGED <<now, nextId, snapVars, storeVars, orgVars, env, voConnections, voLastUsed, auxVars>>

\* hashString
hashString(s) ==
  IF s = Empty THEN <<"e","m","p","t","y">>
  ELSE IF Len(s) > 8 THEN SubSeq(s, 1, 4) \o SubSeq(s, Len(s) - 3, Len(s))
  ELSE s

\* generateConfigKey: fmt.Sprintf("%s_%s_%s_%t", ...)
generateConfigKey(config) ==
  hashString(config.PostgresDSN) \o <<"_">> \o hashString(config.SupabaseURL) \o <<"_">>
    \o hashString(config.SupabaseKey) \o <<"_">>
    \o (IF config.Debug THEN <<"t","r","u","e">> ELSE <<"f","a","l","s","e">>)

MapPut(m, k, v) == [x \in (DOMAIN m) \cup {k} |-> IF x = k THEN v ELSE m[x]]

MapDelete(m, K) == [x \in (DOMAIN m) \ K |-> m[x]]

\* GetOptimizedDatabase in serverless compute: GetOptimizedConnection, under vo.mu
GetOptimizedConnection(config, outcomes, netOk) ==
  /\ isVercelEnvironment(env)
  /\ Len(instances) < MaxInstances
  /\ LET vercel == isVercelEnvironment(env)
         configKey == generateConfigKey(config)
         exists == configKey \in DOMAIN voConnections
         healthy == exists /\ HealthCheck(instances[voConnections[configKey]], netOk)
         closedOld == IF exists THEN CloseInstance(instances, voConnections[configKey])
                      ELSE instances
         kind == NewDatabase(vercel, config, outcomes)
         rec(res, inst) == [op |-> "GetOptimizedConnection", config |-> config, result |-> res,
                            instance |-> inst, reused |-> healthy, netOk |-> netOk,
                            idle |-> IF exists THEN now - voLastUsed[configKey] ELSE 0]
     IN IF healthy
        THEN /\ voLastUsed' = MapPut(voLastUsed, configKey, now)
             /\ UNCHANGED <<instances, voConnections>>
             /\ last' = rec("ok", voConnections[configKey])
        ELSE IF kind = "panic"
             THEN /\ instances' = closedOld
                  /\ voConnections' = MapDelete(voConnections, {configKey})
                  /\ voLastUsed' = MapDelete(voLastUsed, {configKey})
                  /\ last' = rec("panic", 0)
             ELSE /\ instances' = Append(closedOld, Instance(kind, config))
                  /\ voConnections' = MapPut(voConnections, configKey, Len(instances) + 1)
                  /\ voLastUsed' = MapPut(voLastUsed, configKey, now)
                  /\ last' = rec("ok", Len(instances) + 1)
  /\ UNCHANGED <<now, nextId, snapVars, storeVars, orgVars, env, globalPool, auxVars>>

\* cleanupExpiredConnections, under vo.mu (the background sweep)
cleanupExpiredConnections ==
  /\ LET expiredKeys == {k \in DOMAIN voLastUsed : now - voLastUsed[k] > CacheIdle}
         toClose == expiredKeys \cap DOMAIN voConnections
     IN /\ instances' = [i \in 1..Len(instances) |->
                           IF \E k \in toClose : voConnections[k] = i
                           THEN [instances[i] EXCEPT !.closed = TRUE] ELSE instances[i]]
        /\ voConnections' = MapDelete(voConnections, toClose)
        /\ voLastUsed' = MapDelete(voLastUsed, toClose)
  /\ last' = [op |-> "cleanupExpiredConnections"]
  /\ UNCHANGED <<now, nextId, snapVars, storeVars, orgVars, env, globalPool, auxVars>>

\* a cleanup that spares the entries still in use
ForceCleanupExpiredOnly ==
  /\ LET expiredKeys == {k \in DOMAIN voLastUsed : now - voLastUsed[k] > CacheIdle}
         toClose == expiredKeys \cap DOMAIN voConnections
     IN /\ instances' = [i \in 1..Len(instances) |->
                           IF \E k \in toClose : voConnections[k] = i
                           THEN [instances[i] EXCEPT !.closed = TRUE] ELSE instances[i]]
        /\ voConnections' = MapDelete(voConnections, toClose)
        /\ voLastUsed' = MapDelete(voLastUsed, toClose)
        /\ last' = [op |-> "ForceCleanup",
                    closed |-> { voConnections[k] : k \in toClose }]
  /\ UNCHANGED <<now, nextId, snapVars, storeVars, orgVars, env, globalPool, auxVars>>

\* ForceCleanup, under vo.mu
ForceCleanup ==
  /\ instances' = [i \in 1..Len(instances) |->
                     IF \E k \in DOMAIN voConnections : voConnections[k] = i
                     THEN [instances[i] EXCEPT !.closed = TRUE] ELSE instances[i]]
  /\ voConnections' = MapDelete(voConnections, DOMAIN voConnections)
  /\ voLastUsed' = MapDelete(voLastUsed, DOMAIN voConnections)
  /\ last' = [op |-> "ForceCleanup",
              closed |-> { voConnections[k] : k \in DOMAIN voConnections }]
  /\ UNCHANGED <<now, nextId, snapVars, storeVars, orgVars, env, globalPool, auxVars>>

InitLifecycle ==
  /\ now = 0
  /\ nextId = 1
  /\ last = [op |-> "init"]
  /\ backend = "postgres"
  /\ InitSnapVars
  /\ env \in LifecycleEnvs
  /\ instances = <<>>
  /\ globalPool = NoPool
  /\ voConnections = <<>>
  /\ voLastUsed = <<>>
  /\ InitStoreVars
  /\ InitOrgVars
  /\ InitAuxVars

NextLifecycle ==
  \/ Tick
  \/ \E c \in Configs, o \in StrategyOutcomes : CallNewDatabase(c, o)
  \/ \E c \in Configs, o \in StrategyOutcomes, h \in BOOLEAN : GetDatabase(c, o, h)
  \/ \E c \in Configs, o \in StrategyOutcomes, h \in BOOLEAN : GetOptimizedConnection(c, o, h)
  \/ CleanupIdleConnections
  \/ cleanupExpiredConnections
  \/ ForceCleanup

SpecLifecycle == InitLifecycle /\ [][NextLifecycle]_vars

\* ---- the long-lived pool on its own, over a clock that passes its expiry
PoolTick ==
  /\ now < MaxPoolTime
  /\ now' = now + 1
  /\ UNCHANGED <<nextId, last, snapVars, lifeVars, storeVars, orgVars, auxVars>>

\* nothing configured, two structured stores, the REST store
PoolConfigs ==
  { DatabaseConfig(Empty, Empty, Empty, FALSE),
    DatabaseConfig(DsnA, Empty, Empty, FALSE),
    DatabaseConfig(DsnB, Empty, Empty, FALSE),
    DatabaseConfig(Empty, UrlA, KeyA, FALSE) }

InitPool ==
  /\ InitLifecycle
  /\ ~isVercelEnvironment(env)

NextPool ==
  \/ PoolTick
  \/ \E c \in PoolConfigs, o \in StrategyOutcomes, h \in BOOLEAN : GetDatabase(c, o, h)
  \/ CleanupIdleConnections

SpecPool == InitPool /\ [][NextPool]_vars

\* ---- the selector on its own: every environment, every configuration
InitSelector ==
  /\ now = 0
  /\ nextId = 1
  /\ last = [op |-> "init"]
  /\ backend = "postgres"
  /\ InitSnapVars
  /\ env \in Envs
  /\ instances = <<>>
  /\ globalPool = NoPool
  /\ voConnections = <<>>
  /\ voLastUsed = <<>>
  /\ InitStoreVars
  /\ InitOrgVars
  /\ InitAuxVars

NextSelector ==
  \E c \in AllConfigs, o \in StrategyOutcomes : CallNewDatabase(c, o)

SpecSelector == InitSelector /\ [][NextSelector]_vars


RestConfigured(c) == c.SupabaseURL # Empty /\ c.SupabaseKey # Empty

\* some environment marker of serverless compute is set
Ephemeral == \E marker \in DOMAIN env : env[marker] # ""

C2_WitnessLongLived ==
  /\ last.op = "NewDatabase" /\ ~Ephemeral
  /\ RestConfigured(last.config) /\ last.config.PostgresDSN # Empty
  /\ last.result = "postgres"

Unconfigured(c) == c.PostgresDSN = Empty /\ ~RestConfigured(c)

C3_WitnessPool ==
  /\ last.op = "GetDatabase"
  /\ Unconfigured(last.config)
  /\ last.result = "panic"
  /\ globalPool # NoPool

\* =================================================================
\* Structured-Store: spaces, collections, collection items
\* =================================================================
\* sql.NullTime / *time.Time: a NULL deleted_at, and one set at time t
NullTime == [Valid |-> FALSE, Time |-> 0]
TimeAt(t) == [Valid |-> TRUE, Time |-> t]

\* identifiers a caller can pass: 0 is the blank string, the others are uuids
Ids == 0..MaxId
OrgIds == {"o1"}

\* untyped nil in a patch map
Nil == "<nil>"

\* what callers write: the value a create carries, and the one an update carries
SpaceA == [name |-> "a", description |-> "a", is_default |-> TRUE]
SpaceB == [name |-> "b", description |-> "b", is_default |-> FALSE]

CollectionA == [name |-> "a", description |-> "a", color |-> "a", icon |-> "a", position |-> 0]
CollectionB == [name |-> "b", description |-> "b", color |-> "b", icon |-> "b", position |-> 1]

\* a JSON document stored in a jsonb column, given as its text
RawJSON(b) == [json |-> b]

ItemA ==
  [title |-> "a", url |-> "a", fav_icon_url |-> "a", original_title |-> "a",
   ai_generated_title |-> "a", domain |-> "a", metadata |-> RawJSON("a"), position |-> 0]
ItemB ==
  [title |-> "b", url |-> "b", fav_icon_url |-> "b", original_title |-> "b",
   ai_generated_title |-> "b", domain |-> "b", metadata |-> RawJSON("b"), position |-> 1]

\* the ids a caller names: the id of every row of the table, and one no row has
UnknownId == MaxId + 1
IdsOf(table) == { table[i].id : i \in 1..Len(table) }
Targets(table) == IdsOf(table) \cup {UnknownId}

\* the clock of the store
StoreTick ==
  /\ now < MaxClock
  /\ now' = now + 1
  /\ UNCHANGED <<nextId, last, snapVars, lifeVars, storeVars, orgVars, auxVars>>

\* indexes of the rows of a table with the given id (ids are primary keys)
RowsWithId(table, id) == { i \in 1..Len(table) : table[i].id = id }
HasRow(table, id) == RowsWithId(table, id) # {}

\* UPDATE table SET <set(row)> WHERE <where(row)>
UpdateWhere(table, where(_), set(_)) ==
  [i \in 1..Len(table) |-> IF where(table[i]) THEN set(table[i]) ELSE table[i]]

\* DELETE FROM table WHERE <where(row)>
DeleteWhere(table, where(_)) ==
  LET keep(r) == ~where(r) IN SelectSeq(table, keep)

CreateSpace(org, in, execOk) ==
  /\ nextId <= MaxId
  /\ IF execOk
        THEN /\ pgSpaces' = Append(pgSpaces,
                  [id |-> nextId, organization_id |-> org, name |-> in.name,
                   description |-> in.description, is_default |-> in.is_default,
                   created_at |-> now, updated_at |-> now, deleted_at |-> NullTime])
             /\ nextId' = nextId + 1
             /\ last' = [op |-> "CreateSpace", id |-> nextId, result |-> "ok", existed |-> FALSE]
        ELSE /\ UNCHANGED <<pgSpaces, nextId>>
             /\ last' = [op |-> "CreateSpace", id |-> 0, result |-> "error", existed |-> FALSE]
  /\ UNCHANGED <<now, snapVars, lifeVars, orgVars, pgCollections, pgItems, auxVars>>

UpdateSpace(id, in, execOk) ==
  LET where(r) == r.id = id
      set(r) == [r EXCEPT !.name = in.name, !.description = in.description,
                          !.is_default = in.is_default, !.updated_at = now]
  IN /\ pgSpaces' = IF execOk THEN UpdateWhere(pgSpaces, where, set) ELSE pgSpaces
     /\ last' = [op |-> "UpdateSpace", id |-> id, result |-> IF execOk THEN "ok" ELSE "error",
                 existed |-> HasRow(pgSpaces, id)]
     /\ UNCHANGED <<now, nextId, snapVars, lifeVars, orgVars, pgCollections, pgItems, auxVars>>

\* DELETE FROM spaces; the foreign keys of collections, collection_items and
\* space_permissions are ON DELETE CASCADE
DeleteSpace(id, execOk) ==
  LET ofSpace(r) == r.space_id = id
      gone == { pgCollections[i].id : i \in { j \in 1..Len(pgCollections) : ofSpace(pgCollections[j]) } }
      isSpace(r) == r.id = id
      ofGone(r) == r.collection_id \in gone
  IN /\ IF execOk
           THEN /\ pgSpaces' = DeleteWhere(pgSpaces, isSpace)
                /\ pgCollections' = DeleteWhere(pgCollections, ofSpace)
                /\ pgItems' = DeleteWhere(pgItems, ofGone)
                /\ permissions' = DeleteWhere(permissions, ofSpace)
           ELSE UNCHANGED <<pgSpaces, pgCollections, pgItems, permissions>>
     /\ last' = [op |-> "DeleteSpace", id |-> id, result |-> IF execOk THEN "ok" ELSE "error",
                 existed |-> HasRow(pgSpaces, id)]
     /\ UNCHANGED <<now, nextId, snapVars, lifeVars, orgVars, moreVars>>

\* INSERT INTO collections; space_id must reference a row of spaces
CreateCollection(space, in, execOk) ==
  /\ nextId <= MaxId
  /\ IF execOk /\ HasRow(pgSpaces, space)
        THEN /\ pgCollections' = Append(pgCollections,
                  [id |-> nextId, space_id |-> space, name |-> in.name,
                   description |-> in.description, color |-> in.color, icon |-> in.icon,
                   position |-> in.position,
                   created_at |-> now, updated_at |-> now, deleted_at |-> NullTime])
             /\ nextId' = nextId + 1
             /\ last' = [op |-> "CreateCollection", id |-> nextId, result |-> "ok", existed |-> FALSE]
        ELSE /\ UNCHANGED <<pgCollections, nextId>>
             /\ last' = [op |-> "CreateCollection", id |-> 0, result |-> "error", existed |-> FALSE]
  /\ UNCHANGED <<now, snapVars, lifeVars, orgVars, pgSpaces, pgItems, auxVars>>

UpdateCollection(id, in, execOk) ==
  LET where(r) == r.id = id
      set(r) == [r EXCEPT !.name = in.name, !.description = in.description, !.color = in.color,
                          !.icon = in.icon, !.position = in.position, !.updated_at = now]
  IN /\ pgCollections' = IF execOk THEN UpdateWhere(pgCollections, where, set) ELSE pgCollections
     /\ last' = [op |-> "UpdateCollection", id |-> id, result |-> IF execOk THEN "ok" ELSE "error",
                 existed |-> HasRow(pgCollections, id)]
     /\ UNCHANGED <<now, nextId, snapVars, lifeVars, orgVars, pgSpaces, pgItems, auxVars>>

\* what a transaction leaves behind: the staged writes once committed, the
\* table as it was when rolled back
TxNoRollback(before, staged, committed) == staged

TxResult(before, staged, committed) == IF committed THEN staged ELSE before

FailurePoints == {"none", "begin", "exec1", "exec2", "commit"}

\* Begin; UPDATE collections; UPDATE collection_items; Commit.  `fail` names
\* the statement the database fails at.
DeleteCollection(id, fail) ==
  LET isColl(r) == r.id = id
      ofColl(r) == r.collection_id = id
      tomb(r) == [r EXCEPT !.deleted_at = TimeAt(now), !.updated_at = now]
      found == HasRow(pgCollections, id)
      ran1 == fail \notin {"begin", "exec1"}
      ran2 == ran1 /\ found /\ fail # "exec2"
      result == IF fail \in {"begin", "exec1"} THEN "error"
                ELSE IF ~found THEN "collection not found"
                ELSE IF fail \in {"exec2", "commit"} THEN "error"
                ELSE "ok"
      staged1 == IF ran1 THEN UpdateWhere(pgCollections, isColl, tomb) ELSE pgCollections
      staged2 == IF ran2 THEN UpdateWhere(pgItems, ofColl, tomb) ELSE pgItems
  IN /\ pgCollections' = TxResult(pgCollections, staged1, result = "ok")
     /\ pgItems' = TxResult(pgItems, staged2, result = "ok")
     /\ last' = [op |-> "DeleteCollection", id |-> id, result |-> result,
                 existed |-> found, fail |-> fail]
     /\ UNCHANGED <<now, nextId, snapVars, lifeVars, orgVars, pgSpaces, auxVars>>

\* INSERT INTO collection_items; collection_id must reference a row of collections
CreateCollectionItem(coll, in, execOk) ==
  /\ nextId <= MaxId
  /\ IF execOk /\ HasRow(pgCollections, coll)
        THEN /\ pgItems' = Append(pgItems,
                  [id |-> nextId, collection_id |-> coll, title |-> in.title, url |-> in.url,
                   fav_icon_url |-> in.fav_icon_url, original_title |-> in.original_title,
                   ai_generated_title |-> in.ai_generated_title, domain |-> in.domain,
                   metadata |-> in.metadata, position |-> in.position,
                   created_at |-> now, updated_at |-> now, deleted_at |-> NullTime])
             /\ nextId' = nextId + 1
             /\ last' = [op |-> "CreateCollectionItem", id |-> nextId, result |-> "ok", existed |-> FALSE]
        ELSE /\ UNCHANGED <<pgItems, nextId>>
             /\ last' = [op |-> "CreateCollectionItem", id |-> 0, result |-> "error", existed |-> FALSE]
  /\ UNCHANGED <<now, snapVars, lifeVars, orgVars, pgSpaces, pgCollections, auxVars>>

\* the full update written as a replacement of the row by the models.CollectionItem
\* of the request, whose DeletedAt is not set
UpdateCollectionItemWholeRow(id, in, execOk) ==
  LET where(r) == r.id = id
      set(r) == [r EXCEPT !.title = in.title, !.url = in.url, !.fav_icon_url = in.fav_icon_url,
                          !.original_title = in.original_title,
                          !.ai_generated_title = in.ai_generated_title, !.domain = in.domain,
                          !.metadata = in.metadata, !.position = in.position, !.updated_at = now,
                          !.deleted_at = NullTime]
  IN /\ pgItems' = IF execOk THEN UpdateWhere(pgItems, where, set) ELSE pgItems
     /\ last' = [op |-> "UpdateCollectionItem", id |-> id, result |-> IF execOk THEN "ok" ELSE "error",
                 existed |-> HasRow(pgItems, id)]
     /\ UNCHANGED <<now, nextId, snapVars, lifeVars, orgVars, pgSpaces, pgCollections, auxVars>>

\* the full update; it does not change collection_id
UpdateCollectionItem(id, in, execOk) ==
  LET where(r) == r.id = id
      set(r) == [r EXCEPT !.title = in.title, !.url = in.url, !.fav_icon_url = in.fav_icon_url,
                          !.original_title = in.original_title,
                          !.ai_generated_title = in.ai_generated_title, !.domain = in.domain,
                          !.metadata = in.metadata, !.position = in.position, !.updated_at = now]
  IN /\ pgItems' = IF execOk THEN UpdateWhere(pgItems, where, set) ELSE pgItems
     /\ last' = [op |-> "UpdateCollectionItem", id |-> id, result |-> IF execOk THEN "ok" ELSE "error",
                 existed |-> HasRow(pgItems, id)]
     /\ UNCHANGED <<now, nextId, snapVars, lifeVars, orgVars, pgSpaces, pgCollections, auxVars>>

DeleteCollectionItem(id, execOk) ==
  LET where(r) == r.id = id
      tomb(r) == [r EXCEPT !.deleted_at = TimeAt(now), !.updated_at = now]
  IN /\ pgItems' = IF execOk THEN UpdateWhere(pgItems, where, tomb) ELSE pgItems
     /\ last' = [op |-> "DeleteCollectionItem", id |-> id, result |-> IF execOk THEN "ok" ELSE "error",
                 existed |-> HasRow(pgItems, id)]
     /\ UNCHANGED <<now, nextId, snapVars, lifeVars, orgVars, pgSpaces, pgCollections, auxVars>>

\* ---- partial update of a collection item
Whitelist ==
  {"collection_id", "title", "url", "fav_icon_url", "original_title",
   "ai_generated_title", "domain", "metadata", "position"}

TextColumns == {"title", "url", "fav_icon_url", "original_title", "ai_generated_title", "domain"}

\* json.Marshal of a string puts it in quotes, of nil gives null
Marshal(v) == [json |-> IF v = Nil THEN "null" ELSE "\"" \o v \o "\""]

\* a metadata value of a patch map: []byte or anything else
Bytes(b) == [bytes |-> TRUE, v |-> b]
Value(v) == [bytes |-> FALSE, v |-> v]

\* the patch maps callers send; `c` is the collection a move names (0: blank)
PatchKinds ==
  {"empty", "title", "unknown", "title+unknown", "title=nil", "move",
   "metadata-bytes", "metadata-value"}

Patch(kind, c) ==
  CASE kind = "empty" -> [k \in {} |-> Nil]
    [] kind = "title" -> [title |-> "x"]
    [] kind = "unknown" -> [nickname |-> "x", id |-> "x", created_at |-> "x"]
    [] kind = "title+unknown" -> [title |-> "x", nickname |-> "x"]
    [] kind = "title=nil" -> [title |-> Nil, url |-> "x", domain |-> "x", fav_icon_url |-> "x"]
    [] kind = "move" -> [collection_id |-> c]
    [] kind = "nil" -> [title |-> Nil, url |-> Nil, collection_id |-> 0]
    [] kind = "undelete" -> [deleted_at |-> Nil, title |-> "x"]
    [] kind = "metadata-bytes" -> [metadata |-> Bytes("x")]
    [] kind = "metadata-value" ->
         [metadata |-> Value("x"), position |-> 5, original_title |-> "x", ai_generated_title |-> "x"]

PatchInputs ==
  { <<k, 0>> : k \in PatchKinds } \cup { <<"move", c>> : c \in Targets(pgCollections) }

\* the loop without its guards: a nil text and a blank collection_id are assigned
SetClausesUnguarded(patch) ==
  LET cols == DOMAIN patch \cap Whitelist
  IN [k \in cols |->
        IF k = "metadata"
           THEN (IF patch[k].bytes THEN RawJSON(patch[k].v) ELSE Marshal(patch[k].v))
           ELSE patch[k]]

\* a partial update written as the full update: every column is assigned,
\* the ones the patch does not name from the zero value
SetClausesFullRow(patch) ==
  [k \in Whitelist \ {"collection_id"} |->
     IF k \in DOMAIN patch
        THEN (IF k = "metadata" THEN RawJSON(patch[k].v) ELSE patch[k])
        ELSE (IF k = "metadata" THEN RawJSON("") ELSE IF k = "position" THEN 0 ELSE "")]

\* the SET clauses the loop over the patch map collects: column -> value
SetClauses(patch) ==
  LET cols == { k \in DOMAIN patch :
                  \/ k = "collection_id" /\ patch[k] # 0
                  \/ k \in TextColumns /\ patch[k] # Nil
                  \/ k = "metadata"
                  \/ k = "position" }
  IN [k \in cols |->
        IF k = "metadata"
           THEN (IF patch[k].bytes THEN RawJSON(patch[k].v) ELSE Marshal(patch[k].v))
           ELSE patch[k]]

UpdateCollectionItemPartial(id, kind, c, execOk) ==
  LET patch == Patch(kind, c)
      clauses == SetClauses(patch)
      where(r) == r.id = id
      set(r) == [f \in DOMAIN r |->
                   IF f \in DOMAIN clauses THEN clauses[f]
                   ELSE IF f = "updated_at" THEN now ELSE r[f]]
      \* a row that moves must reference a row of collections
      fkOk == ("collection_id" \in DOMAIN clauses /\ HasRow(pgItems, id))
                 => HasRow(pgCollections, clauses["collection_id"])
      result == IF id = 0 THEN "item id required"
                ELSE IF DOMAIN clauses = {} THEN "ok"
                ELSE IF execOk /\ fkOk THEN "ok" ELSE "error"
  IN /\ pgItems' = IF id # 0 /\ DOMAIN clauses # {} /\ result = "ok"
                      THEN UpdateWhere(pgItems, where, set) ELSE pgItems
     /\ last' = [op |-> "UpdateCollectionItemPartial", id |-> id, result |-> result,
                 existed |-> HasRow(pgItems, id), patch |-> <<kind, c>>]
     /\ UNCHANGED <<now, nextId, snapVars, lifeVars, orgVars, pgSpaces, pgCollections, auxVars>>

\* ---- listing
\* ORDER BY: keys[i] is the sort key <<major, minor>> of rows[i]; rows that
\* tie stay in table order
KeyBefore(k1, k2) == k1[1] < k2[1] \/ (k1[1] = k2[1] /\ k1[2] < k2[2])

Without(seq, i) == [j \in 1..(Len(seq) - 1) |-> IF j < i THEN seq[j] ELSE seq[j + 1]]

RECURSIVE OrderBy(_, _)
OrderBy(rows, keys) ==
  IF Len(rows) <= 1 THEN rows
  ELSE LET first == CHOOSE i \in 1..Len(rows) :
                      \A j \in 1..Len(rows) :
                        j # i => (KeyBefore(keys[i], keys[j])
                                    \/ (~KeyBefore(keys[j], keys[i]) /\ i < j))
       IN <<rows[first]>> \o OrderBy(Without(rows, first), Without(keys, first))

ByCreatedAt(rows) == OrderBy(rows, [i \in 1..Len(rows) |-> <<rows[i].created_at, 0>>])

ByPosition(rows) == OrderBy(rows, [i \in 1..Len(rows) |-> <<rows[i].position, rows[i].created_at>>])

ListSpacesByOrganization(org) ==
  LET where(r) == r.organization_id = org /\ ~r.deleted_at.Valid
  IN ByCreatedAt(SelectSeq(pgSpaces, where))

ListCollectionsBySpace(space) ==
  LET where(r) == r.space_id = space
  IN ByPosition(SelectSeq(pgCollections, where))

ListItemsByCollection(coll) ==
  LET where(r) == r.collection_id = coll /\ ~r.deleted_at.Valid
  IN ByPosition(SelectSeq(pgItems, where))

\* ---- CollectionsHandler.ListCollections: the listing a client receives
NoSince == [set |-> FALSE, t |-> 0]
Since(t) == [set |-> TRUE, t |-> t]

\* the handler drops every tombstone, with or without a cutoff
IncludeActiveOnly(c, since) ==
  IF since.set THEN c.updated_at > since.t /\ ~c.deleted_at.Valid
  ELSE ~c.deleted_at.Valid

\* the handler passes on whatever the store returned when no cutoff is given
IncludeAllByDefault(c, since) ==
  IF since.set
     THEN c.updated_at > since.t \/ (c.deleted_at.Valid /\ c.deleted_at.Time > since.t)
     ELSE TRUE

Include(c, since) ==
  IF since.set
     THEN c.updated_at > since.t \/ (c.deleted_at.Valid /\ c.deleted_at.Time > since.t)
     ELSE ~c.deleted_at.Valid

DefaultPage == 1
DefaultPageSize == 20

ListCollections(space, since, page, pageSize) ==
  LET list == ListCollectionsBySpace(space)
      include(c) == Include(c, since)
      filtered == SelectSeq(list, include)
      total == Len(filtered)
      start == IF (page - 1) * pageSize > total THEN total ELSE (page - 1) * pageSize
      end == IF start + pageSize > total THEN total ELSE start + pageSize
  IN SubSeq(filtered, start + 1, end)

Range(seq) == { seq[i] : i \in 1..Len(seq) }

\* ---- the store under every operation on spaces, collections and items
InitStore ==
  /\ now = 0
  /\ nextId = 1
  /\ last = [op |-> "init"]
  /\ backend = "postgres"
  /\ InitSnapVars
  /\ InitLifeVars
  /\ InitStoreVars
  /\ InitOrgVars
  /\ InitAuxVars

NextStore ==
  \/ StoreTick
  \/ \E org \in OrgIds, ok \in BOOLEAN : CreateSpace(org, SpaceA, ok)
  \/ \E id \in Targets(pgSpaces), ok \in BOOLEAN : DeleteSpace(id, ok)
  \/ \E sp \in Targets(pgSpaces), ok \in BOOLEAN : CreateCollection(sp, CollectionA, ok)
  \/ \E id \in Targets(pgCollections), fail \in FailurePoints : DeleteCollection(id, fail)
  \/ \E c \in Targets(pgCollections), ok \in BOOLEAN : CreateCollectionItem(c, ItemA, ok)
  \/ \E id \in Targets(pgItems), ok \in BOOLEAN : DeleteCollectionItem(id, ok)

SpecStore == InitStore /\ [][NextStore]_vars

\* ---- the collections of a space as a client lists them while they are
\* ---- edited and deleted
NextListing ==
  \/ StoreTick
  \/ \E org \in OrgIds : CreateSpace(org, SpaceA, TRUE)
  \/ \E sp \in Targets(pgSpaces) : CreateCollection(sp, CollectionA, TRUE)
  \/ \E id \in Targets(pgCollections), ok \in BOOLEAN : UpdateCollection(id, CollectionB, ok)
  \/ \E id \in Targets(pgCollections) : DeleteCollection(id, "none")

SpecListing == InitStore /\ [][NextListing]_vars

\* ---- the full updates
NextUpdate ==
  \/ StoreTick
  \/ \E org \in OrgIds : CreateSpace(org, SpaceA, TRUE)
  \/ \E id \in Targets(pgSpaces), ok \in BOOLEAN : UpdateSpace(id, SpaceB, ok)
  \/ \E sp \in Targets(pgSpaces) : CreateCollection(sp, CollectionA, TRUE)
  \/ \E id \in Targets(pgCollections), ok \in BOOLEAN : UpdateCollection(id, CollectionB, ok)
  \/ \E c \in Targets(pgCollections) : CreateCollectionItem(c, ItemA, TRUE)
  \/ \E id \in Targets(pgItems), ok \in BOOLEAN : UpdateCollectionItem(id, ItemB, ok)

SpecUpdate == InitStore /\ [][NextUpdate]_vars

\* ---- the items of a collection under partial updates, at one instant
NextItems ==
  \/ \E org \in OrgIds : CreateSpace(org, SpaceA, TRUE)
  \/ \E sp \in Targets(pgSpaces) : CreateCollection(sp, CollectionA, TRUE)
  \/ \E c \in Targets(pgCollections) : CreateCollectionItem(c, ItemA, TRUE)
  \/ \E id \in Targets(pgItems) \cup {0}, p \in PatchInputs, ok \in BOOLEAN :
       UpdateCollectionItemPartial(id, p[1], p[2], ok)

SpecItems == InitStore /\ [][NextItems]_vars

\* =================================================================
\* Properties of the Structured-Store
\* =================================================================
DeletedAtOf(table) == [i \in 1..Len(table) |-> table[i].deleted_at]

\* C4: DeleteCollection is all-or-nothing: when it succeeds the collection and
\* every one of its items carry a deleted_at; when it fails, at whatever
\* statement, or names an unknown collection, no deleted_at of any collection
\* or item is changed by the call.
C4_DeleteCollectionAtomic ==
  [][ last'.op = "DeleteCollection" =>
        IF last'.result = "ok"
           THEN /\ HasRow(pgCollections', last'.id)
                /\ \A i \in RowsWithId(pgCollections', last'.id) :
                     pgCollections'[i].deleted_at.Valid
                /\ \A i \in 1..Len(pgItems') :
                     pgItems'[i].collection_id = last'.id => pgItems'[i].deleted_at.Valid
           ELSE /\ DeletedAtOf(pgCollections') = DeletedAtOf(pgCollections)
                /\ DeletedAtOf(pgItems') = DeletedAtOf(pgItems)
    ]_vars

\* the cascade failed after the parent update, with a live item in the collection
C4_Witness ==
  /\ last.op = "DeleteCollection" /\ last.fail = "exec2" /\ last.result = "error"
  /\ \E i \in RowsWithId(pgCollections, last.id) : ~pgCollections[i].deleted_at.Valid
  /\ \E i \in 1..Len(pgItems) :
       pgItems[i].collection_id = last.id /\ ~pgItems[i].deleted_at.Valid

\* the cascade succeeded on a collection with an item
C4_WitnessSuccess ==
  /\ last.op = "DeleteCollection" /\ last.result = "ok"
  /\ \E i \in 1..Len(pgItems) :
       pgItems[i].collection_id = last.id /\ pgItems[i].deleted_at.Valid

NoTombstone(rows) == \A r \in Range(rows) : ~r.deleted_at.Valid

\* C5 as stated: none of the three list operations of the store returns a row
\* with a deleted_at, and after a successful DeleteCollection(c) the store's
\* ListCollectionsBySpace of any space does not contain c.
C5_StoreListsExcludeTombstones ==
  /\ \A org \in OrgIds : NoTombstone(ListSpacesByOrganization(org))
  /\ \A s \in IdsOf(pgSpaces) : NoTombstone(ListCollectionsBySpace(s))
  /\ \A c \in IdsOf(pgCollections) : NoTombstone(ListItemsByCollection(c))
  /\ (last.op = "DeleteCollection" /\ last.result = "ok") =>
       \A s \in IdsOf(pgSpaces) : last.id \notin IdsOf(ListCollectionsBySpace(s))

\* C5 (amended): ListSpacesByOrganization and ListItemsByCollection return no
\* row with a deleted_at; ListCollectionsBySpace returns the tombstones too, and
\* the listing built on it, called without a cutoff, returns none: after a
\* successful DeleteCollection(c) the store still returns c for its space and
\* the listing of that space does not contain c.
C5_DefaultListingExcludesTombstones ==
  /\ \A org \in OrgIds : NoTombstone(ListSpacesByOrganization(org))
  /\ \A c \in IdsOf(pgCollections) : NoTombstone(ListItemsByCollection(c))
  /\ \A s \in IdsOf(pgSpaces) :
       /\ NoTombstone(ListCollections(s, NoSince, DefaultPage, DefaultPageSize))
       /\ IdsOf(ListCollectionsBySpace(s)) = { r.id : r \in { x \in Range(pgCollections) : x.space_id = s } }
  /\ (last.op = "DeleteCollection" /\ last.result = "ok") =>
       \A s \in IdsOf(pgSpaces) :
         last.id \notin IdsOf(ListCollections(s, NoSince, DefaultPage, DefaultPageSize))

\* a deleted collection that the store returns and the listing leaves out,
\* next to a deleted item that ListItemsByCollection leaves out
C5_Witness ==
  /\ last.op = "DeleteCollection" /\ last.result = "ok"
  /\ \E s \in IdsOf(pgSpaces) :
       /\ last.id \in IdsOf(ListCollectionsBySpace(s))
       /\ last.id \notin IdsOf(ListCollections(s, NoSince, DefaultPage, DefaultPageSize))
  /\ \E i \in 1..Len(pgItems) :
       /\ pgItems[i].collection_id = last.id
       /\ pgItems[i].id \notin IdsOf(ListItemsByCollection(last.id))

\* C6: with a cutoff the listing of a space returns exactly its collections
\* touched after the cutoff: every live row modified after it and every
\* tombstone deleted after it are in, a live row not modified since and a
\* tombstone neither deleted nor modified since are out; a tombstone comes with
\* its deleted_at.
C6_SinceListing ==
  \A s \in IdsOf(pgSpaces), t \in 0..MaxClock :
    LET res == Range(ListCollections(s, Since(t), DefaultPage, DefaultPageSize))
        rows == { r \in Range(pgCollections) : r.space_id = s }
    IN /\ res \subseteq rows
       /\ \A r \in rows :
            /\ (~r.deleted_at.Valid /\ r.updated_at > t) => r \in res
            /\ (r.deleted_at.Valid /\ r.deleted_at.Time > t) => r \in res
            /\ (~r.deleted_at.Valid /\ r.updated_at <= t) => r \notin res
            /\ (r.deleted_at.Valid /\ r.deleted_at.Time <= t /\ r.updated_at <= t) => r \notin res

\* a collection deleted after the cutoff is listed with its deleted_at, and one
\* deleted at the cutoff is not
C6_Witness ==
  /\ last.op = "DeleteCollection" /\ last.result = "ok"
  /\ \E s \in IdsOf(pgSpaces) :
       /\ \E r \in Range(ListCollections(s, Since(0), DefaultPage, DefaultPageSize)) :
            r.id = last.id /\ r.deleted_at = TimeAt(1)
       /\ last.id \notin IdsOf(ListCollections(s, Since(1), DefaultPage, DefaultPageSize))

\* a collection modified after the cutoff is listed, one not modified since is not
C6_WitnessModified ==
  /\ last.op = "UpdateCollection" /\ last.result = "ok" /\ last.existed
  /\ \E s \in IdsOf(pgSpaces) :
       /\ last.id \in IdsOf(ListCollections(s, Since(0), DefaultPage, DefaultPageSize))
       /\ \E r \in Range(ListCollectionsBySpace(s)) :
            /\ r.id # last.id
            /\ r.id \notin IdsOf(ListCollections(s, Since(0), DefaultPage, DefaultPageSize))

TableOf(op) ==
  IF op \in {"DeleteSpace", "UpdateSpace"} THEN pgSpaces
  ELSE IF op \in {"DeleteCollection", "UpdateCollection"} THEN pgCollections
  ELSE pgItems

\* C7: after DeleteSpace, DeleteCollection or DeleteCollectionItem succeeds on
\* an existing row, the row still exists and carries a deleted_at.
C7_DeleteIsSoft ==
  (/\ last.op \in {"DeleteSpace", "DeleteCollection", "DeleteCollectionItem"}
   /\ last.result = "ok" /\ last.existed)
    => \E i \in RowsWithId(TableOf(last.op), last.id) : TableOf(last.op)[i].deleted_at.Valid

\* C7 for the two deletes that set the timestamp
C7_CollectionAndItemDeleteIsSoft ==
  (/\ last.op \in {"DeleteCollection", "DeleteCollectionItem"}
   /\ last.result = "ok" /\ last.existed)
    => \E i \in RowsWithId(TableOf(last.op), last.id) : TableOf(last.op)[i].deleted_at.Valid

\* C8: UpdateCollectionItemPartial leaves every other item as it is, leaves
\* every column of the item that the patch does not name as it is (updated_at
\* apart), gives each named text column its value, and a patch of keys outside
\* the whitelist changes nothing and is not an error.
C8_PartialUpdateFrame ==
  [][ last'.op = "UpdateCollectionItemPartial" =>
        LET patch == Patch(last'.patch[1], last'.patch[2])
        IN /\ Len(pgItems') = Len(pgItems)
           /\ \A i \in 1..Len(pgItems) :
                /\ pgItems[i].id # last'.id => pgItems'[i] = pgItems[i]
                /\ \A f \in DOMAIN pgItems[i] \ {"updated_at"} :
                     f \notin DOMAIN patch => pgItems'[i][f] = pgItems[i][f]
                /\ (pgItems[i].id = last'.id /\ last'.result = "ok") =>
                     \A f \in DOMAIN patch \cap TextColumns :
                       pgItems'[i][f] = IF patch[f] = Nil THEN pgItems[i][f] ELSE patch[f]
           /\ (DOMAIN patch \cap Whitelist = {} /\ last'.id # 0) =>
                (last'.result = "ok" /\ pgItems' = pgItems)
           /\ pgSpaces' = pgSpaces
           /\ pgCollections' = pgCollections
    ]_vars

\* a patch of title and an unknown key changed the title of the item and
\* nothing else
C8_Witness ==
  /\ last.op = "UpdateCollectionItemPartial" /\ last.result = "ok"
  /\ last.patch = <<"title+unknown", 0>>
  /\ \E i \in RowsWithId(pgItems, last.id) :
       /\ pgItems[i].title = "x" /\ pgItems[i].url = ItemA.url
       /\ pgItems[i].metadata = ItemA.metadata /\ pgItems[i].position = ItemA.position

\* a patch of unknown keys only was accepted
C8_WitnessUnknown ==
  /\ last.op = "UpdateCollectionItemPartial" /\ last.result = "ok" /\ last.existed
  /\ last.patch = <<"unknown", 0>>

UpdateOps ==
  {"UpdateUser", "UpdateOrganization", "UpdateSpace", "UpdateCollection",
   "UpdateCollectionItem", "UpdateInvitation"}

\* C9: an Update called with an id no row has does not succeed (it returns a
\* not-found error, or the error of the store if that fails first) and leaves
\* every table as it is.
C9_UpdateNeverCreates ==
  [][ (last'.op \in UpdateOps /\ ~last'.existed) =>
        (last'.result # "ok" /\ storeVars' = storeVars /\ orgVars' = orgVars)
    ]_vars

\* =================================================================
\* Users, organizations and memberships on the three backends
\* =================================================================

\* the users that have registered
RegisteredUsers ==
  << [id |-> "u1", email |-> "u1@", name |-> "a", avatar |-> "a", provider |-> "email",
      tier |-> "free", created_at |-> 0, updated_at |-> 0],
     [id |-> "u2", email |-> "u2@", name |-> "a", avatar |-> "a", provider |-> "email",
      tier |-> "free", created_at |-> 0, updated_at |-> 0] >>

\* the models.User an UpdateUser call carries for user id
UserB(id) ==
  [id |-> id, email |-> id \o "@", name |-> "b", avatar |-> "b", provider |-> "google",
   tier |-> "pro", created_at |-> 0, updated_at |-> 0]

OrgA(owner) == [name |-> "a", owner_id |-> owner, description |-> "a", avatar |-> "a", color |-> "a"]
OrgB == [name |-> "b", description |-> "", avatar |-> "b", color |-> " "]

HasPair(org, user) ==
  \E i \in 1..Len(memberships) :
    memberships[i].organization_id = org /\ memberships[i].user_id = user

Membership(id, org, user, role) ==
  [id |-> id, organization_id |-> org, user_id |-> user, role |-> role, created_at |-> now]

OrgRow(id, in) ==
  [id |-> id, name |-> in.name, owner_id |-> in.owner_id, description |-> in.description,
   avatar |-> in.avatar, color |-> in.color, created_at |-> now, updated_at |-> now]

\* ---- Structured-Store
\* INSERT INTO organizations, then INSERT INTO organization_memberships
\* ON CONFLICT DO NOTHING, as two statements
PgCreateOrganization(owner, orgOk, memOk) ==
  /\ backend = "postgres"
  /\ nextId + 1 <= MaxId
  /\ IF ~orgOk \/ ~HasRow(users, owner)
        THEN /\ UNCHANGED <<organizations, memberships, nextId>>
             /\ last' = [op |-> "CreateOrganization", id |-> 0, user |-> owner, result |-> "error"]
        ELSE /\ organizations' = Append(organizations, OrgRow(nextId, OrgA(owner)))
             /\ IF memOk
                   THEN /\ memberships' =
                             IF HasPair(nextId, owner) THEN memberships
                             ELSE Append(memberships, Membership(nextId + 1, nextId, owner, "owner"))
                        /\ nextId' = nextId + 2
                        /\ last' = [op |-> "CreateOrganization", id |-> nextId, user |-> owner, result |-> "ok"]
                   ELSE /\ UNCHANGED memberships
                        /\ nextId' = nextId + 1
                        /\ last' = [op |-> "CreateOrganization", id |-> nextId, user |-> owner, result |-> "error"]
  /\ UNCHANGED <<now, backend, snapVars, lifeVars, storeVars, users, auxVars>>

\* ON CONFLICT (organization_id, user_id) DO UPDATE SET role = EXCLUDED.role
PgUpsertMembership(org, user, role) ==
  IF HasPair(org, user)
     THEN [i \in 1..Len(memberships) |->
             IF memberships[i].organization_id = org /\ memberships[i].user_id = user
                THEN [memberships[i] EXCEPT !.role = role] ELSE memberships[i]]
     ELSE Append(memberships, Membership(nextId, org, user, role))

PgAddOrganizationMember(org, user, role, execOk) ==
  /\ backend = "postgres"
  /\ nextId <= MaxId
  /\ IF execOk /\ HasRow(organizations, org) /\ HasRow(users, user)
        THEN /\ memberships' = PgUpsertMembership(org, user, role)
             /\ nextId' = IF HasPair(org, user) THEN nextId ELSE nextId + 1
             /\ last' = [op |-> "AddOrganizationMember", id |-> org, user |-> user,
                         result |-> "ok", existed |-> HasPair(org, user)]
        ELSE /\ UNCHANGED <<memberships, nextId>>
             /\ last' = [op |-> "AddOrganizationMember", id |-> org, user |-> user,
                         result |-> "error", existed |-> HasPair(org, user)]
  /\ UNCHANGED <<now, backend, snapVars, lifeVars, storeVars, users, organizations, auxVars>>

\* strings.TrimSpace(s) == "" gives NULL, and COALESCE(NULL, column) the column
nullIfEmpty(v, column) == IF v \in {"", " "} THEN column ELSE v

PgUpdateOrganization(id, in, execOk) ==
  LET where(r) == r.id = id
      set(r) == [r EXCEPT !.name = nullIfEmpty(in.name, r.name),
                          !.description = nullIfEmpty(in.description, r.description),
                          !.avatar = nullIfEmpty(in.avatar, r.avatar),
                          !.color = nullIfEmpty(in.color, r.color),
                          !.updated_at = now]
  IN /\ backend = "postgres"
     /\ organizations' = IF execOk THEN UpdateWhere(organizations, where, set) ELSE organizations
     /\ last' = [op |-> "UpdateOrganization", id |-> id, result |-> IF execOk THEN "ok" ELSE "error",
                 existed |-> HasRow(organizations, id)]
     /\ UNCHANGED <<now, nextId, backend, snapVars, lifeVars, storeVars, users, memberships, auxVars>>

PgUpdateUser(user, execOk) ==
  LET where(r) == r.id = user.id
      set(r) == [r EXCEPT !.name = user.name, !.avatar = user.avatar,
                          !.provider = user.provider, !.updated_at = now]
      result == IF user.id = "" THEN "user ID is required" ELSE IF execOk THEN "ok" ELSE "error"
  IN /\ backend = "postgres"
     /\ users' = IF result = "ok" THEN UpdateWhere(users, where, set) ELSE users
     /\ last' = [op |-> "UpdateUser", id |-> user.id, result |-> result,
                 existed |-> HasRow(users, user.id)]
     /\ UNCHANGED <<now, nextId, backend, snapVars, lifeVars, storeVars, organizations, memberships, auxVars>>

\* ---- REST-Store
\* organization_memberships: UNIQUE(organization_id, user_id) and the foreign
\* keys to organizations and users; a violating POST is answered with a 4xx
RestPostMembershipAccepted(org, user) ==
  HasRow(organizations, org) /\ HasRow(users, user) /\ ~HasPair(org, user)

\* POST /organizations, then POST /organization_memberships
SbCreateOrganization(owner, orgOk, memOk) ==
  /\ backend = "supabase"
  /\ nextId + 1 <= MaxId
  /\ IF ~orgOk \/ ~HasRow(users, owner)
        THEN /\ UNCHANGED <<organizations, memberships, nextId>>
             /\ last' = [op |-> "CreateOrganization", id |-> 0, user |-> owner, result |-> "error"]
        ELSE /\ organizations' = Append(organizations, OrgRow(nextId, [OrgA(owner) EXCEPT !.color = ""]))
             /\ IF memOk
                   THEN /\ memberships' = Append(memberships, Membership(nextId + 1, nextId, owner, "owner"))
                        /\ nextId' = nextId + 2
                        /\ last' = [op |-> "CreateOrganization", id |-> nextId, user |-> owner, result |-> "ok"]
                   ELSE /\ UNCHANGED memberships
                        /\ nextId' = nextId + 1
                        /\ last' = [op |-> "CreateOrganization", id |-> nextId, user |-> owner, result |-> "error"]
  /\ UNCHANGED <<now, backend, snapVars, lifeVars, storeVars, users, auxVars>>

SbAddOrganizationMember(org, user, role, requestOk) ==
  /\ backend = "supabase"
  /\ nextId <= MaxId
  /\ IF requestOk /\ RestPostMembershipAccepted(org, user)
        THEN /\ memberships' = Append(memberships, Membership(nextId, org, user, role))
             /\ nextId' = nextId + 1
             /\ last' = [op |-> "AddOrganizationMember", id |-> org, user |-> user,
                         result |-> "ok", existed |-> FALSE]
        ELSE /\ UNCHANGED <<memberships, nextId>>
             /\ last' = [op |-> "AddOrganizationMember", id |-> org, user |-> user,
                         result |-> "error", existed |-> HasPair(org, user)]
  /\ UNCHANGED <<now, backend, snapVars, lifeVars, storeVars, users, organizations, auxVars>>

\* PATCH /users?id=eq.<id>: no row matched is not an error
\* the PATCH on a table without the trigger: updated_at is the value sent
SbUpdateUserNoTrigger(user, requestOk) ==
  LET where(r) == r.id = user.id
      set(r) == [r EXCEPT !.name = user.name, !.avatar = user.avatar, !.provider = user.provider,
                          !.tier = user.tier, !.updated_at = user.updated_at]
  IN /\ backend = "supabase"
     /\ users' = IF requestOk THEN UpdateWhere(users, where, set) ELSE users
     /\ last' = [op |-> "UpdateUser", id |-> user.id, result |-> IF requestOk THEN "ok" ELSE "error",
                 existed |-> HasRow(users, user.id)]
     /\ UNCHANGED <<now, nextId, backend, snapVars, lifeVars, storeVars, organizations, memberships, auxVars>>

\* the updated_at of the PATCH is replaced by the trigger update_users_updated_at
\* (BEFORE UPDATE: NEW.updated_at := NOW())
SbUpdateUser(user, requestOk) ==
  LET where(r) == r.id = user.id
      set(r) == [r EXCEPT !.name = user.name, !.avatar = user.avatar, !.provider = user.provider,
                          !.tier = user.tier, !.updated_at = now]
  IN /\ backend = "supabase"
     /\ users' = IF requestOk THEN UpdateWhere(users, where, set) ELSE users
     /\ last' = [op |-> "UpdateUser", id |-> user.id, result |-> IF requestOk THEN "ok" ELSE "error",
                 existed |-> HasRow(users, user.id)]
     /\ UNCHANGED <<now, nextId, backend, snapVars, lifeVars, storeVars, organizations, memberships, auxVars>>

\* ---- LocalDatabase
\* appends; the pair is not looked up
addMembership(m) == Append(memberships, m)

\* `fail` names the file whose read or write fails
LocalCreateOrganization(owner, fail) ==
  /\ backend = "local"
  /\ nextId + 1 <= MaxId
  /\ IF fail = "organizations"
        THEN /\ UNCHANGED <<organizations, memberships, nextId>>
             /\ last' = [op |-> "CreateOrganization", id |-> 0, user |-> owner, result |-> "error"]
        ELSE /\ organizations' = Append(organizations, OrgRow(nextId, OrgA(owner)))
             /\ IF fail = "memberships"
                   THEN /\ UNCHANGED memberships
                        /\ nextId' = nextId + 1
                        /\ last' = [op |-> "CreateOrganization", id |-> nextId, user |-> owner, result |-> "error"]
                   ELSE /\ memberships' = addMembership(Membership(nextId + 1, nextId, owner, "owner"))
                        /\ nextId' = nextId + 2
                        /\ last' = [op |-> "CreateOrganization", id |-> nextId, user |-> owner, result |-> "ok"]
  /\ UNCHANGED <<now, backend, snapVars, lifeVars, storeVars, users, auxVars>>

LocalAddOrganizationMember(org, user, role, fileOk) ==
  /\ backend = "local"
  /\ nextId <= MaxId
  /\ IF fileOk
        THEN /\ memberships' = addMembership(Membership(nextId, org, user, IF role = "" THEN "member" ELSE role))
             /\ nextId' = nextId + 1
             /\ last' = [op |-> "AddOrganizationMember", id |-> org, user |-> user,
                         result |-> "ok", existed |-> HasPair(org, user)]
        ELSE /\ UNCHANGED <<memberships, nextId>>
             /\ last' = [op |-> "AddOrganizationMember", id |-> org, user |-> user,
                         result |-> "error", existed |-> HasPair(org, user)]
  /\ UNCHANGED <<now, backend, snapVars, lifeVars, storeVars, users, organizations, auxVars>>

\* replace the user of that id, or append
saveUser(user) ==
  IF HasRow(users, user.id)
     THEN [i \in 1..Len(users) |-> IF i = Min(RowsWithId(users, user.id)) THEN user ELSE users[i]]
     ELSE Append(users, user)

LocalUpdateUser(user, fileOk) ==
  /\ backend = "local"
  /\ users' = IF fileOk THEN saveUser([user EXCEPT !.updated_at = now]) ELSE users
  /\ last' = [op |-> "UpdateUser", id |-> user.id, result |-> IF fileOk THEN "ok" ELSE "error",
              existed |-> HasRow(users, user.id)]
  /\ UNCHANGED <<now, nextId, backend, snapVars, lifeVars, storeVars, organizations, memberships, auxVars>>

InitOrg ==
  /\ now = 0
  /\ nextId = 1
  /\ last = [op |-> "init"]
  /\ backend \in {"postgres", "supabase", "local"}
  /\ InitSnapVars
  /\ InitLifeVars
  /\ InitStoreVars
  /\ users = RegisteredUsers
  /\ organizations = <<>>
  /\ memberships = <<>>
  /\ InitAuxVars

UpdateUserIds == {"u1", "u3", ""}
MemberRoles == {"admin", ""}

NextOrg ==
  \/ StoreTick
  \/ \E orgOk \in BOOLEAN, memOk \in BOOLEAN : PgCreateOrganization("u1", orgOk, memOk)
  \/ \E o \in Targets(organizations), u \in Users, ok \in BOOLEAN :
       PgAddOrganizationMember(o, u, "admin", ok)
  \/ \E o \in Targets(organizations), ok \in BOOLEAN : PgUpdateOrganization(o, OrgB, ok)
  \/ \E id \in UpdateUserIds, ok \in BOOLEAN : PgUpdateUser(UserB(id), ok)
  \/ \E orgOk \in BOOLEAN, memOk \in BOOLEAN : SbCreateOrganization("u1", orgOk, memOk)
  \/ \E o \in Targets(organizations), u \in Users, ok \in BOOLEAN :
       SbAddOrganizationMember(o, u, "admin", ok)
  \/ \E id \in UpdateUserIds \ {""}, ok \in BOOLEAN : SbUpdateUser(UserB(id), ok)
  \/ \E fail \in {"none", "organizations", "memberships"} : LocalCreateOrganization("u1", fail)
  \/ \E o \in Targets(organizations), u \in Users, r \in MemberRoles, ok \in BOOLEAN :
       LocalAddOrganizationMember(o, u, r, ok)
  \/ \E id \in UpdateUserIds \ {""}, ok \in BOOLEAN : LocalUpdateUser(UserB(id), ok)

SpecOrg == InitOrg /\ [][NextOrg]_vars

\* C10: on every backend there is at most one membership row per
\* (organization_id, user_id).
C10_OneMembershipPerPair ==
  \A i, j \in 1..Len(memberships) :
    (/\ memberships[i].organization_id = memberships[j].organization_id
     /\ memberships[i].user_id = memberships[j].user_id) => i = j

\* C10 on the two stores that enforce UNIQUE(organization_id, user_id): a second
\* AddOrganizationMember for a pair updates the role (Structured-Store) or is
\* rejected (REST-Store)
C10_StoresWithConstraint ==
  backend \in {"postgres", "supabase"} =>
    /\ C10_OneMembershipPerPair
    /\ (last.op = "AddOrganizationMember" /\ last.existed) =>
         IF backend = "postgres" /\ last.result = "ok"
            THEN \E i \in 1..Len(memberships) :
                   /\ memberships[i].organization_id = last.id
                   /\ memberships[i].user_id = last.user
                   /\ memberships[i].role = "admin"
            ELSE last.result = "error"

HasOwnerMembership(org) ==
  \E i \in 1..Len(memberships) :
    /\ memberships[i].organization_id = org.id
    /\ memberships[i].user_id = org.owner_id
    /\ memberships[i].role = "owner"

\* C11: every organization row has the 'owner' membership of its owner_id, in
\* every state, a failed CreateOrganization included; after a successful
\* CreateOrganization the membership of the new organization exists.
C11_OwnerMembershipAtomic ==
  /\ \A org \in Range(organizations) : HasOwnerMembership(org)
  /\ (last.op = "CreateOrganization" /\ last.result = "ok") =>
       \E org \in Range(organizations) : org.id = last.id /\ HasOwnerMembership(org)

\* C11 without atomicity: a CreateOrganization that returned nil left the
\* organization and the owner's membership
C11_SuccessGrantsOwner ==
  (last.op = "CreateOrganization" /\ last.result = "ok") =>
    \E org \in Range(organizations) : org.id = last.id /\ HasOwnerMembership(org)

\* =================================================================
\* Space permissions
\* =================================================================
HasPermission(space, user) ==
  \E i \in 1..Len(permissions) :
    permissions[i].space_id = space /\ permissions[i].user_id = user

PermissionRow(id, space, user, canEdit) ==
  [id |-> id, space_id |-> space, user_id |-> user, can_edit |-> canEdit,
   created_at |-> now, updated_at |-> now]

\* UPDATE/PATCH of the rows of (space, user): can_edit, and updated_at by the
\* statement or the trigger
SetCanEdit(space, user, canEdit) ==
  [i \in 1..Len(permissions) |->
     IF permissions[i].space_id = space /\ permissions[i].user_id = user
        THEN [permissions[i] EXCEPT !.can_edit = canEdit, !.updated_at = now]
        ELSE permissions[i]]

\* the call as `last` records it
SetSpacePermissionCall(space, user, canEdit, result) ==
  [op |-> "SetSpacePermission", id |-> space, user |-> user, can_edit |-> canEdit,
   result |-> result, existed |-> HasPermission(space, user)]

\* a plain INSERT into a table without the unique key
PgInsertPermission(id, space, user, canEdit) ==
  Append(permissions, PermissionRow(id, space, user, canEdit))

\* INSERT ... ON CONFLICT (space_id, user_id) DO UPDATE SET can_edit
PgUpsertPermission(id, space, user, canEdit) ==
  IF HasPermission(space, user)
     THEN SetCanEdit(space, user, canEdit)
     ELSE Append(permissions, PermissionRow(id, space, user, canEdit))

\* the upsert as one statement; space_id and user_id must reference rows of
\* spaces and users
PgSetSpacePermission(space, user, canEdit, execOk) ==
  LET accepted == execOk /\ HasRow(pgSpaces, space) /\ HasRow(users, user)
      insert == accepted /\ ~HasPermission(space, user)
  IN /\ backend = "postgres"
     /\ insert => nextId <= MaxId
     /\ permissions' =
          IF accepted THEN PgUpsertPermission(nextId, space, user, canEdit) ELSE permissions
     /\ nextId' = IF insert THEN nextId + 1 ELSE nextId
     /\ last' = SetSpacePermissionCall(space, user, canEdit, IF accepted THEN "ok" ELSE "error")
     /\ UNCHANGED <<now, snapVars, lifeVars, storeVars, orgVars, moreVars>>

\* PATCH /space_permissions?space_id=eq.S&user_id=eq.U, and a POST only when
\* the PATCH came back as an error.  patchOk: the PATCH was answered below 400,
\* which is also the answer when no row matched; postOk: the POST reached the
\* store and its foreign keys hold, UNIQUE(space_id, user_id) still applies.
SbSetSpacePermission(space, user, canEdit, patchOk, postOk) ==
  LET insert == ~patchOk /\ postOk /\ ~HasPermission(space, user)
  IN /\ backend = "supabase"
     /\ insert => nextId <= MaxId
     /\ permissions' =
          IF patchOk THEN SetCanEdit(space, user, canEdit)
          ELSE IF insert THEN Append(permissions, PermissionRow(nextId, space, user, canEdit))
          ELSE permissions
     /\ nextId' = IF insert THEN nextId + 1 ELSE nextId
     /\ last' = SetSpacePermissionCall(space, user, canEdit,
                                       IF patchOk \/ insert THEN "ok" ELSE "error")
     /\ UNCHANGED <<now, snapVars, lifeVars, storeVars, orgVars, moreVars>>

\* load, update the row of (space, user) or append one, save
LocalSetSpacePermission(space, user, canEdit, fileOk) ==
  LET insert == fileOk /\ ~HasPermission(space, user)
  IN /\ backend = "local"
     /\ insert => nextId <= MaxId
     /\ permissions' =
          IF ~fileOk THEN permissions
          ELSE IF insert THEN Append(permissions, PermissionRow(nextId, space, user, canEdit))
          ELSE SetCanEdit(space, user, canEdit)
     /\ nextId' = IF insert THEN nextId + 1 ELSE nextId
     /\ last' = SetSpacePermissionCall(space, user, canEdit, IF fileOk THEN "ok" ELSE "error")
     /\ UNCHANGED <<now, snapVars, lifeVars, storeVars, orgVars, moreVars>>

\* SELECT ... WHERE space_id = $1 / GET ?space_id=eq. / filter of the file
GetSpacePermissions(space) ==
  LET where(r) == r.space_id = space
  IN SelectSeq(permissions, where)

\* space ids callers of the REST and the file store name
PermSpaces == {1, 2}

InitPerm ==
  /\ now = 0
  /\ nextId = 1
  /\ last = [op |-> "init"]
  /\ backend \in {"postgres", "supabase", "local"}
  /\ InitSnapVars
  /\ InitLifeVars
  /\ InitStoreVars
  /\ users = RegisteredUsers
  /\ organizations = <<>>
  /\ memberships = <<>>
  /\ InitAuxVars

NextPerm ==
  \/ backend = "postgres" /\ \E org \in OrgIds : CreateSpace(org, SpaceA, TRUE)
  \/ backend = "postgres" /\ \E id \in Targets(pgSpaces) : DeleteSpace(id, TRUE)
  \/ \E sp \in Targets(pgSpaces), u \in Users, canEdit \in BOOLEAN, ok \in BOOLEAN :
       PgSetSpacePermission(sp, u, canEdit, ok)
  \/ \E sp \in PermSpaces, u \in Users, canEdit \in BOOLEAN, patchOk \in BOOLEAN, postOk \in BOOLEAN :
       SbSetSpacePermission(sp, u, canEdit, patchOk, postOk)
  \/ \E sp \in PermSpaces, u \in Users, canEdit \in BOOLEAN, ok \in BOOLEAN :
       LocalSetSpacePermission(sp, u, canEdit, ok)

SpecPerm == InitPerm /\ [][NextPerm]_vars

RowsOfUser(rows, user) == { i \in 1..Len(rows) : rows[i].user_id = user }

\* C12: after a successful SetSpacePermission(space, user, canEdit), on every
\* backend, GetSpacePermissions(space) has exactly one row for the user and it
\* carries canEdit, whether or not a row existed before the call.
C12_SetSpacePermissionUpserts ==
  (last.op = "SetSpacePermission" /\ last.result = "ok") =>
    LET rows == GetSpacePermissions(last.id)
    IN /\ Cardinality(RowsOfUser(rows, last.user)) = 1
       /\ \A i \in RowsOfUser(rows, last.user) : rows[i].can_edit = last.can_edit

\* C12 on the Structured-Store and the file store, and on the REST-Store for
\* a pair that has its row
C12_UpsertWhereImplemented ==
  (/\ last.op = "SetSpacePermission" /\ last.result = "ok"
   /\ (backend = "supabase" => last.existed)) =>
    LET rows == GetSpacePermissions(last.id)
    IN /\ Cardinality(RowsOfUser(rows, last.user)) = 1
       /\ \A i \in RowsOfUser(rows, last.user) : rows[i].can_edit = last.can_edit

\* =================================================================
\* Concurrent callers of the Structured-Store upserts
\* =================================================================
\* the calls goroutines make at the same time, foreign keys satisfied
PgCalls ==
  { [op |-> "SaveSnapshot", user |-> "u1", name |-> "work", tabGroups |-> tg] :
      tg \in {<<>>, <<Group(1)>>} }
  \cup { [op |-> "SetSpacePermission", space |-> sp, user |-> "u1", can_edit |-> b] :
           sp \in IdsOf(pgSpaces), b \in BOOLEAN }
  \cup { [op |-> "AddOrganizationMember", org |-> o, user |-> u, role |-> r] :
           o \in IdsOf(organizations), u \in Users, r \in {"admin", "member"} }

\* the rows of the unique key a call names
RowsOfCall(call) ==
  CASE call.op = "SaveSnapshot" ->
         { r \in Range(pgSnapshots) : r.user_id = call.user /\ r.name = call.name }
    [] call.op = "SetSpacePermission" ->
         { r \in Range(permissions) : r.space_id = call.space /\ r.user_id = call.user }
    [] call.op = "AddOrganizationMember" ->
         { r \in Range(memberships) : r.organization_id = call.org /\ r.user_id = call.user }

\* the goroutine has entered the method: arguments evaluated, statement not
\* yet sent
PgCall(g, call) ==
  /\ backend = "postgres"
  /\ callers[g].pc = "idle"
  /\ callers' = [callers EXCEPT ![g] = [pc |-> "exec", call |-> call]]
  /\ UNCHANGED <<now, nextId, last, snapVars, lifeVars, storeVars, orgVars, permissions, restVars>>

\* db.db.Exec of the goroutine's INSERT ... ON CONFLICT ... DO UPDATE: the
\* store runs the statement as one step
PgExec(g, execOk) ==
  LET call == callers[g].call
      insert == execOk /\ RowsOfCall(call) = {}
  IN /\ backend = "postgres"
     /\ callers[g].pc = "exec"
     /\ insert => nextId <= MaxId
     /\ nextId' = IF insert THEN nextId + 1 ELSE nextId
     /\ pgSnapshots' =
          IF execOk /\ call.op = "SaveSnapshot"
             THEN PgUpsertSnapshot(pgSnapshots, nextId, call.user, call.name, call.tabGroups,
                                   Len(call.tabGroups), CountTabs(call.tabGroups, 1), now)
             ELSE pgSnapshots
     /\ permissions' =
          IF execOk /\ call.op = "SetSpacePermission"
             THEN PgUpsertPermission(nextId, call.space, call.user, call.can_edit)
             ELSE permissions
     /\ memberships' =
          IF execOk /\ call.op = "AddOrganizationMember"
             THEN PgUpsertMembership(call.org, call.user, call.role)
             ELSE memberships
     /\ callers' = [callers EXCEPT ![g] = [pc |-> "done", call |-> call, executed |-> execOk,
                                           result |-> IF execOk THEN "ok" ELSE "error"]]
     /\ last' = [op |-> "Exec", id |-> g, result |-> IF execOk THEN "ok" ELSE "error",
                 existed |-> RowsOfCall(call) # {}]
     /\ UNCHANGED <<now, backend, sbSnapshots, localSnapshots, lifeVars, storeVars,
                    users, organizations, restVars>>

InitConcurrent ==
  /\ now = 0
  /\ nextId = 1
  /\ last = [op |-> "init"]
  /\ backend = "postgres"
  /\ InitSnapVars
  /\ InitLifeVars
  /\ InitStoreVars
  /\ users = RegisteredUsers
  /\ organizations = <<>>
  /\ memberships = <<>>
  /\ InitAuxVars

NextConcurrent ==
  \/ \E org \in OrgIds : CreateSpace(org, SpaceA, TRUE)
  \/ PgCreateOrganization("u1", TRUE, TRUE)
  \/ \E g \in Goroutines : \E call \in PgCalls : PgCall(g, call)
  \/ \E g \in Goroutines, ok \in BOOLEAN : PgExec(g, ok)

SpecConcurrent == InitConcurrent /\ [][NextConcurrent]_vars

SameKey(c1, c2) ==
  /\ c1.op = c2.op
  /\ CASE c1.op = "SaveSnapshot" -> c1.user = c2.user /\ c1.name = c2.name
       [] c1.op = "SetSpacePermission" -> c1.space = c2.space /\ c1.user = c2.user
       [] c1.op = "AddOrganizationMember" -> c1.org = c2.org /\ c1.user = c2.user

HoldsValuesOf(r, call) ==
  CASE call.op = "SaveSnapshot" ->
         /\ r.tab_groups = call.tabGroups
         /\ r.group_count = Len(call.tabGroups)
         /\ r.tab_count = CountTabs(call.tabGroups, 1)
    [] call.op = "SetSpacePermission" -> r.can_edit = call.can_edit
    [] call.op = "AddOrganizationMember" -> r.role = call.role

Executed(g) == callers[g].pc = "done" /\ callers[g].executed

\* C13: whatever the interleaving of the goroutines, a Structured-Store upsert
\* whose statement reached the store succeeded, and its unique key has
\* exactly one row, which holds the values of one of the calls made on that key.
C13_UpsertsRaceFree ==
  \A g \in Goroutines :
    Executed(g) =>
      /\ callers[g].result = "ok"
      /\ Cardinality(RowsOfCall(callers[g].call)) = 1
      /\ \E h \in Goroutines :
           /\ Executed(h)
           /\ SameKey(callers[h].call, callers[g].call)
           /\ \A r \in RowsOfCall(callers[g].call) : HoldsValuesOf(r, callers[h].call)

\* two goroutines were inside SaveSnapshot for the same key at the same time
\* with different tab groups, none of them finding a row, and both have returned
C13_Witness ==
  /\ \A g \in {1, 2} : Executed(g) /\ callers[g].call.op = "SaveSnapshot"
  /\ callers[1].call.tabGroups # callers[2].call.tabGroups
  /\ last.op = "Exec" /\ last.existed

\* the same for two AddOrganizationMember calls with different roles
C13_WitnessMembership ==
  /\ \A g \in {1, 2} : Executed(g) /\ callers[g].call.op = "AddOrganizationMember"
  /\ SameKey(callers[1].call, callers[2].call)
  /\ callers[1].call.role # callers[2].call.role

\* and for two SetSpacePermission calls with different can_edit
C13_WitnessPermission ==
  /\ \A g \in {1, 2} : Executed(g) /\ callers[g].call.op = "SetSpacePermission"
  /\ SameKey(callers[1].call, callers[2].call)
  /\ callers[1].call.can_edit # callers[2].call.can_edit

\* =================================================================
\* Concurrent callers of the REST-Store SaveSnapshot
\* =================================================================
SbCalls ==
  { [op |-> "SaveSnapshot", user |-> u, name |-> "work", tabGroups |-> tg] :
      u \in Users, tg \in {<<>>, <<Group(1)>>} }

\* the goroutine has entered SaveSnapshot and built the payload
SbCall(g, call) ==
  /\ backend = "supabase"
  /\ callers[g].pc = "idle"
  /\ callers' = [callers EXCEPT ![g] = [pc |-> "get", call |-> call]]
  /\ UNCHANGED <<now, nextId, last, snapVars, lifeVars, storeVars, orgVars, permissions, restVars>>

\* getSnapshotByName: what the GET of this goroutine observed
SbGet(g, getOk) ==
  LET call == callers[g].call
      got == IF ~getOk THEN "error"
             ELSE IF HasKey(sbSnapshots, call.user, call.name) THEN "row" ELSE "none"
  IN /\ backend = "supabase"
     /\ callers[g].pc = "get"
     /\ callers' = [callers EXCEPT ![g] =
                      [pc |-> "write", call |-> call, got |-> got,
                       found |-> GetSnapshotByNameFound(sbSnapshots, call.user, call.name, getOk)]]
     /\ last' = [op |-> "Get", id |-> g, result |-> got]
     /\ UNCHANGED <<now, nextId, snapVars, lifeVars, storeVars, orgVars, permissions, restVars>>

\* the PATCH when the GET found a row, the POST otherwise
SbWrite(g, writeOk) ==
  LET call == callers[g].call
      tg == call.tabGroups
      method == IF callers[g].found THEN "PATCH" ELSE "POST"
      accepted == writeOk /\ (method = "POST" => RestPostSnapshotAccepted(sbSnapshots, call.user, call.name))
      insert == accepted /\ method = "POST"
  IN /\ backend = "supabase"
     /\ callers[g].pc = "write"
     /\ insert => nextId <= MaxId
     /\ nextId' = IF insert THEN nextId + 1 ELSE nextId
     /\ sbSnapshots' =
          IF ~accepted THEN sbSnapshots
          ELSE IF method = "PATCH"
             THEN RestPatchSnapshots(sbSnapshots, call.user, call.name, tg, Len(tg), CountTabs(tg, 1), now)
             ELSE Append(sbSnapshots,
                         SnapshotRow(nextId, call.user, call.name, tg, Len(tg), CountTabs(tg, 1), now, now))
     /\ callers' = [callers EXCEPT ![g] =
                      [pc |-> "done", call |-> call, got |-> callers[g].got, method |-> method,
                       sent |-> writeOk, result |-> IF accepted THEN "ok" ELSE "error"]]
     /\ last' = [op |-> "Write", id |-> g, result |-> IF accepted THEN "ok" ELSE "error"]
     /\ UNCHANGED <<now, backend, pgSnapshots, localSnapshots, lifeVars, storeVars, orgVars, permissions, restVars>>

InitRace ==
  /\ now = 0
  /\ nextId = 1
  /\ last = [op |-> "init"]
  /\ backend = "supabase"
  /\ InitSnapVars
  /\ InitLifeVars
  /\ InitStoreVars
  /\ InitOrgVars
  /\ InitAuxVars

NextRace ==
  \/ StoreTick
  \/ \E g \in Goroutines : \E call \in SbCalls : SbCall(g, call)
  \/ \E g \in Goroutines, ok \in BOOLEAN : SbGet(g, ok)
  \/ \E g \in Goroutines, ok \in BOOLEAN : SbWrite(g, ok)

SpecRace == InitRace /\ [][NextRace]_vars

Posted(g) == callers[g].pc = "done" /\ callers[g].method = "POST" /\ callers[g].sent

\* C14: a goroutine of the REST-Store SaveSnapshot sends a POST exactly when
\* its own GET found no row, whatever other goroutines have written since;
\* so two goroutines that both found no row both send a POST for the same
\* (user, name).  The remote store, which has the unique key, accepts at most
\* one of the POSTs of a key: the others return an error and no duplicate row
\* is stored.
C14_RestUpsertRaceWindow ==
  /\ \A g \in Goroutines :
       callers[g].pc = "done" => (callers[g].method = "POST" <=> callers[g].got # "row")
  /\ \A g, h \in Goroutines :
       (g # h /\ Posted(g) /\ Posted(h) /\ SameKey(callers[g].call, callers[h].call)) =>
         ~(callers[g].result = "ok" /\ callers[h].result = "ok")
  /\ \A u \in Users, n \in SnapshotNames :
       Cardinality({ i \in 1..Len(sbSnapshots) :
                       sbSnapshots[i].user_id = u /\ sbSnapshots[i].name = n }) <= 1

\* the race: two goroutines saved the same (user, name), the GET of each was
\* answered with no row, both sent their POST, one was stored and the other
\* rejected
C14_Witness ==
  /\ \A g \in {1, 2} : Posted(g) /\ callers[g].got = "none"
  /\ SameKey(callers[1].call, callers[2].call)
  /\ callers[1].result = "ok" /\ callers[2].result = "error"

\* =================================================================
\* Properties of the connection lifecycle
\* =================================================================
\* the conditions under which the pool is to be rebuilt, on the state before
\* the call
PoolMustRecreate(pool, config, netOk) ==
  \/ pool = NoPool
  \/ ~configEquals(pool.config, config)
  \/ now - pool.lastUsed > PoolExpiry
  \/ ~HealthCheck(instances[pool.instance], netOk)

C15_WitnessReuse ==
  /\ last.op = "GetDatabase" /\ ~last.recreated
  /\ now - last.pool.lastUsed = PoolExpiry

\* the pool was rebuilt only because its health check failed
C15_WitnessUnhealthy ==
  /\ last.op = "GetDatabase" /\ last.recreated /\ last.result = "ok"
  /\ last.pool # NoPool
  /\ configEquals(last.pool.config, last.config)
  /\ now - last.pool.lastUsed <= PoolExpiry
  /\ ~last.netOk

\* the entry of a key has been idle past the eviction threshold
Stale(key) == key \in DOMAIN voLastUsed /\ now - voLastUsed[key] > CacheIdle

\* the instance does not answer a health check: its handle is closed or the
\* round trip fails
Unhealthy(inst, netOk) == (inst.kind = "postgres" /\ inst.closed) \/ ~netOk

\* the entry of a key is replaced by the step: its instance closed, and when
\* the call returned, a new open instance cached under the key
EntryReplaced(key) ==
  /\ instances'[voConnections[key]].closed
  /\ last'.result = "ok" =>
       /\ last'.instance # voConnections[key]
       /\ ~instances'[last'.instance].closed
       /\ voConnections'[key] = last'.instance
       /\ voLastUsed'[key] = now

\* C16 as stated: a GetOptimizedConnection that finds an entry for its key
\* which is stale or unhealthy closes and evicts it and caches a fresh
\* instance under the key; it never returns the stale or unhealthy instance.
C16_LookupEvictsStaleOrUnhealthy ==
  [][ (last' # last /\ last'.op = "GetOptimizedConnection") =>
        LET key == generateConfigKey(last'.config)
        IN (/\ key \in DOMAIN voConnections
            /\ (Stale(key) \/ Unhealthy(instances[voConnections[key]], last'.netOk)))
             => EntryReplaced(key) ]_vars

\* C16 (amended): a GetOptimizedConnection that finds an unhealthy entry for
\* its key closes and evicts it and caches a fresh instance under the key; one
\* that finds a healthy entry returns its instance and sets lastUsed, however
\* long the entry has been idle.  Stale entries are closed and evicted by the
\* sweep cleanupExpiredConnections.
C16_LookupEvictsUnhealthy ==
  /\ [][ (last' # last /\ last'.op = "GetOptimizedConnection") =>
           LET key == generateConfigKey(last'.config)
           IN key \in DOMAIN voConnections =>
                IF Unhealthy(instances[voConnections[key]], last'.netOk)
                   THEN EntryReplaced(key)
                   ELSE /\ last'.result = "ok"
                        /\ last'.instance = voConnections[key]
                        /\ instances' = instances
                        /\ voConnections' = voConnections
                        /\ voLastUsed' = [voLastUsed EXCEPT ![key] = now] ]_vars
  /\ [][ (last' # last /\ last'.op = "cleanupExpiredConnections") =>
           \A key \in DOMAIN voConnections :
             IF Stale(key)
                THEN /\ instances'[voConnections[key]].closed
                     /\ key \notin DOMAIN voConnections'
                     /\ key \notin DOMAIN voLastUsed'
                ELSE /\ key \in DOMAIN voConnections'
                     /\ voConnections'[key] = voConnections[key]
                     /\ instances'[voConnections[key]] = instances[voConnections[key]] ]_vars

\* a lookup returned an entry that had been idle past the threshold
C16_Witness ==
  /\ last.op = "GetOptimizedConnection" /\ last.reused
  /\ last.idle > CacheIdle

\* a lookup replaced an unhealthy entry that was not stale
C16_WitnessUnhealthy ==
  /\ last.op = "GetOptimizedConnection" /\ ~last.reused /\ last.result = "ok"
  /\ last.instance > 1
  /\ instances[last.instance - 1].config = last.config
  /\ instances[last.instance - 1].closed
  /\ ~last.netOk

\* C17 as stated: after the cleanup operation of either strategy, whatever the
\* idle time or the health of the instances, nothing is cached and every
\* instance is closed.
C17_BothStrategiesForceCleanup ==
  /\ last.op = "ForceCleanup" =>
       /\ voConnections = <<>>
       /\ voLastUsed = <<>>
       /\ isVercelEnvironment(env) => \A i \in 1..Len(instances) : instances[i].closed
  /\ last.op = "CleanupIdleConnections" =>
       /\ globalPool = NoPool
       /\ ~isVercelEnvironment(env) => \A i \in 1..Len(instances) : instances[i].closed

\* C17 (amended): ForceCleanup of the keyed cache closes every cached instance
\* and leaves the cache empty, whatever the idle time or the health, and the
\* next GetOptimizedConnection constructs a fresh instance.  The cleanup of
\* the long-lived pool, CleanupIdleConnections, closes and drops the pool's
\* instance when it has been idle for more than 10 minutes and leaves the
\* pool as it is otherwise.
C17_ForceCleanupOfCacheOnly ==
  /\ [](last.op = "ForceCleanup" =>
          /\ voConnections = <<>>
          /\ voLastUsed = <<>>
          /\ \A i \in last.closed : instances[i].closed
          /\ isVercelEnvironment(env) => \A i \in 1..Len(instances) : instances[i].closed)
  /\ [][ (last.op = "ForceCleanup" /\ last'.op = "GetOptimizedConnection"
            /\ last'.result = "ok") =>
           /\ ~last'.reused
           /\ last'.instance = Len(instances) + 1
           /\ ~instances'[last'.instance].closed ]_vars
  /\ [][ (last'.op = "CleanupIdleConnections" /\ now' = now) =>
           IF globalPool # NoPool /\ now - globalPool.lastUsed > PoolIdle
              THEN /\ instances'[globalPool.instance].closed
                   /\ globalPool' = NoPool
              ELSE /\ globalPool' = globalPool
                   /\ instances' = instances ]_vars

\* ForceCleanup closed an instance that had just been cached
C17_Witness ==
  /\ last.op = "ForceCleanup"
  /\ last.closed # {}
  /\ now = 0

\* CleanupIdleConnections left a pool that had just been used
C17_WitnessPoolKept ==
  /\ last.op = "CleanupIdleConnections"
  /\ globalPool # NoPool
  /\ ~instances[globalPool.instance].closed

\* =================================================================
\* Concurrent acquisitions through GetOptimizedDatabase
\* =================================================================
\* the mutex of the strategy in use: vo.mu in serverless compute, poolMutex otherwise
MutexOf(e) == IF isVercelEnvironment(e) THEN "mu" ELSE "poolMutex"

\* a Lock that returns at once, whoever holds the mutex
LockReturnsAtOnce(m) == TRUE

\* sync.Mutex.Lock returns when no goroutine holds the mutex
LockReturns(m) == locks[m] = 0

\* a structured store, the REST store, nothing configured
AcquireConfigs ==
  { DatabaseConfig(DsnA, Empty, Empty, FALSE),
    DatabaseConfig(Empty, UrlA, KeyA, FALSE),
    DatabaseConfig(Empty, Empty, Empty, FALSE) }

\* every connection variant answers, or none does
AcquireOutcomes ==
  { <<"ok", "ok", "ok", "ok">>,
    <<"ping_fail", "ping_fail", "open_fail", "ping_fail">> }

\* the goroutine has called GetOptimizedDatabase(config) and is about to Lock
AcquireCall(g, config) ==
  /\ callers[g].pc = "idle"
  /\ callers' = [callers EXCEPT ![g] = [pc |-> "lock", config |-> config]]
  /\ UNCHANGED <<now, nextId, last, snapVars, lifeVars, storeVars, orgVars, permissions, restVars>>

\* poolMutex.Lock() / vo.mu.Lock()
AcquireLock(g) ==
  LET m == MutexOf(env)
  IN /\ callers[g].pc = "lock"
     /\ LockReturns(m)
     /\ locks' = [locks EXCEPT ![m] = g]
     /\ callers' = [callers EXCEPT ![g].pc = "check"]
     /\ UNCHANGED <<now, nextId, last, snapVars, lifeVars, storeVars, orgVars, permissions,
                    invitations, connecting>>

\* the read and the check: the cached instance is returned when it can be
\* reused, closed (and evicted from the keyed cache) when it cannot
AcquireCheck(g, netOk) ==
  LET config == callers[g].config
      configKey == generateConfigKey(config)
      exists == configKey \in DOMAIN voConnections
      reuse(inst) == [callers EXCEPT ![g] = [pc |-> "unlock", config |-> config,
                                             result |-> "ok", instance |-> inst]]
      create == [callers EXCEPT ![g].pc = "create"]
  IN /\ callers[g].pc = "check"
     /\ IF isVercelEnvironment(env)
        THEN /\ UNCHANGED globalPool
             /\ IF exists /\ HealthCheck(instances[voConnections[configKey]], netOk)
                THEN /\ voLastUsed' = [voLastUsed EXCEPT ![configKey] = now]
                     /\ callers' = reuse(voConnections[configKey])
                     /\ UNCHANGED <<instances, voConnections>>
                ELSE /\ instances' = IF exists
                                        THEN CloseInstance(instances, voConnections[configKey])
                                        ELSE instances
                     /\ voConnections' = MapDelete(voConnections, {configKey})
                     /\ voLastUsed' = MapDelete(voLastUsed, {configKey})
                     /\ callers' = create
        ELSE /\ UNCHANGED <<voConnections, voLastUsed>>
             /\ IF globalPool = NoPool \/ shouldRecreateConnection(globalPool, config, netOk)
                THEN /\ instances' = IF globalPool # NoPool
                                        THEN CloseInstance(instances, globalPool.instance)
                                        ELSE instances
                     /\ UNCHANGED globalPool
                     /\ callers' = create
                ELSE /\ globalPool' = [globalPool EXCEPT !.lastUsed = now]
                     /\ callers' = reuse(globalPool.instance)
                     /\ UNCHANGED instances
     /\ UNCHANGED <<now, nextId, last, snapVars, env, storeVars, orgVars, permissions, restVars>>

\* the create and the write: NewDatabase(config), then the cache is assigned;
\* a panic of NewDatabase leaves the cache as the check left it
AcquireCreate(g, outcomes) ==
  LET config == callers[g].config
      configKey == generateConfigKey(config)
      vercel == isVercelEnvironment(env)
      kind == NewDatabase(vercel, config, outcomes)
      new == Len(instances) + 1
  IN /\ callers[g].pc = "create"
     /\ Len(instances) < MaxInstances
     /\ IF kind = "panic"
        THEN /\ callers' = [callers EXCEPT ![g] = [pc |-> "unlock", config |-> config,
                                                   result |-> "panic", instance |-> 0]]
             /\ UNCHANGED <<instances, globalPool, voConnections, voLastUsed>>
        ELSE /\ instances' = Append(instances, Instance(kind, config))
             /\ callers' = [callers EXCEPT ![g] = [pc |-> "unlock", config |-> config,
                                                   result |-> "ok", instance |-> new]]
             /\ IF vercel
                THEN /\ voConnections' = MapPut(voConnections, configKey, new)
                     /\ voLastUsed' = MapPut(voLastUsed, configKey, now)
                     /\ UNCHANGED globalPool
                ELSE /\ globalPool' = [instance |-> new, config |-> config, lastUsed |-> now]
                     /\ UNCHANGED <<voConnections, voLastUsed>>
     /\ UNCHANGED <<now, nextId, last, snapVars, env, storeVars, orgVars, permissions, restVars>>

\* the deferred Unlock, and the return to the caller
AcquireUnlock(g) ==
  LET m == MutexOf(env)
  IN /\ callers[g].pc = "unlock"
     /\ locks' = [locks EXCEPT ![m] = 0]
     /\ callers' = [callers EXCEPT ![g].pc = "done"]
     /\ UNCHANGED <<now, nextId, last, snapVars, lifeVars, storeVars, orgVars, permissions,
                    invitations, connecting>>

\* the caller is finished with the call and may call again
AcquireReturn(g) ==
  /\ callers[g].pc = "done"
  /\ callers' = [callers EXCEPT ![g] = Idle]
  /\ UNCHANGED <<now, nextId, last, snapVars, lifeVars, storeVars, orgVars, permissions, restVars>>

InitAcquire == InitLifecycle

NextAcquire ==
  \/ \E g \in Goroutines, c \in AcquireConfigs : AcquireCall(g, c)
  \/ \E g \in Goroutines : AcquireLock(g)
  \/ \E g \in Goroutines, h \in BOOLEAN : AcquireCheck(g, h)
  \/ \E g \in Goroutines, o \in AcquireOutcomes : AcquireCreate(g, o)
  \/ \E g \in Goroutines : AcquireUnlock(g)
  \/ \E g \in Goroutines : AcquireReturn(g)

SpecAcquire == InitAcquire /\ [][NextAcquire]_vars

\* the goroutine is between Lock and Unlock
InCriticalSection(g) == callers[g].pc \in {"check", "create", "unlock"}

\* the goroutine has been handed an instance
Received(g) == callers[g].pc \in {"unlock", "done"} /\ callers[g].result = "ok"

\* the instances constructed for a configuration
ConstructedFor(config) == { i \in 1..Len(instances) : instances[i].config = config }

\* C18: under every interleaving of concurrent acquisitions the read, check,
\* create and write of a call run with no other call between Lock and Unlock;
\* and for each configuration, as long as no instance constructed for it has
\* had to be closed (the cached one stayed healthy and unexpired, and was not
\* displaced), at most one instance has been constructed for it, and every
\* caller that has received an instance for it has received that one.
C18_AcquisitionIsMutuallyExclusive ==
  /\ \A g1, g2 \in Goroutines :
       (InCriticalSection(g1) /\ InCriticalSection(g2)) => g1 = g2
  /\ \A g \in Goroutines : InCriticalSection(g) <=> locks[MutexOf(env)] = g
  /\ \A c \in AcquireConfigs :
       (\A i \in ConstructedFor(c) : ~instances[i].closed) =>
          /\ Cardinality(ConstructedFor(c)) <= 1
          /\ \A g \in Goroutines :
               (Received(g) /\ callers[g].config = c) =>
                  ConstructedFor(c) = {callers[g].instance}

\* two callers with the same configuration hold the one instance constructed
C18_Witness ==
  /\ Received(1) /\ Received(2)
  /\ callers[1].config = callers[2].config
  /\ callers[1].instance = callers[2].instance
  /\ ConstructedFor(callers[1].config) = {callers[1].instance}

\* one caller constructs while another with the same configuration waits for the mutex
C18_WitnessWaiting ==
  /\ callers[1].pc = "create" /\ callers[2].pc = "lock"
  /\ callers[1].config = callers[2].config

\* =================================================================
\* GetOrganization and its errors
\* =================================================================
\* an error value: its dynamic type and its message
Error(type, text) == [type |-> type, text |-> text]

NoError == Error("nil", "")

\* fmt.Errorf("organization not found"): no %w, so an *errors.errorString
OrganizationNotFound == Error("*errors.errorString", "organization not found")

\* what the backend does with the request: it answers, it cannot be reached,
\* it reports a failure, it answers with something that cannot be decoded
Responses == {"ok", "unreachable", "failure", "unparsable"}

\* the result of a GetOrganization
GetOrganizationCall(id, response, err) ==
  [op |-> "GetOrganization", id |-> id, response |-> response, err |-> err,
   result |-> IF err = NoError THEN "ok" ELSE "error"]

\* QueryRow(...).Scan: sql.ErrNoRows is the not-found error, any other error is wrapped
PgGetOrganization(id, response) ==
  /\ backend = "postgres"
  /\ last' = GetOrganizationCall(id, response,
                IF response # "ok" THEN Error("*fmt.wrapError", "failed to get organization")
                ELSE IF ~HasRow(organizations, id) THEN OrganizationNotFound
                ELSE NoError)
  /\ UNCHANGED <<now, nextId, snapVars, lifeVars, storeVars, orgVars, auxVars>>

\* makeRequest: the transport error is wrapped, a status >= 400 is a new error
SbMakeRequest(response) ==
  CASE response = "unreachable" -> Error("*fmt.wrapError", "failed to send request")
    [] response = "failure" -> Error("*errors.errorString", "API request failed with status")
    [] OTHER -> NoError

\* GET /organizations?id=eq.<id>: a body that does not decode and an empty
\* list both give the not-found error
SbGetOrganization(id, response) ==
  /\ backend = "supabase"
  /\ last' = GetOrganizationCall(id, response,
                IF SbMakeRequest(response) # NoError THEN SbMakeRequest(response)
                ELSE IF response = "unparsable" \/ ~HasRow(organizations, id)
                     THEN OrganizationNotFound
                ELSE NoError)
  /\ UNCHANGED <<now, nextId, snapVars, lifeVars, storeVars, orgVars, auxVars>>

\* loadAllOrganizations: the error of os.ReadFile or of json.Unmarshal as it is
loadAllOrganizations(response) ==
  CASE response \in {"unreachable", "failure"} -> Error("*fs.PathError", "read organizations.json")
    [] response = "unparsable" -> Error("*json.SyntaxError", "invalid character")
    [] OTHER -> NoError

LocalGetOrganization(id, response) ==
  /\ backend = "local"
  /\ last' = GetOrganizationCall(id, response,
                IF loadAllOrganizations(response) # NoError THEN loadAllOrganizations(response)
                ELSE IF ~HasRow(organizations, id) THEN OrganizationNotFound
                ELSE NoError)
  /\ UNCHANGED <<now, nextId, snapVars, lifeVars, storeVars, orgVars, auxVars>>

NextGetOrg ==
  \/ StoreTick
  \/ \E orgOk \in BOOLEAN, memOk \in BOOLEAN : PgCreateOrganization("u1", orgOk, memOk)
  \/ \E orgOk \in BOOLEAN, memOk \in BOOLEAN : SbCreateOrganization("u1", orgOk, memOk)
  \/ \E fail \in {"none", "organizations", "memberships"} : LocalCreateOrganization("u1", fail)
  \/ \E id \in Targets(organizations), r \in Responses : PgGetOrganization(id, r)
  \/ \E id \in Targets(organizations), r \in Responses : SbGetOrganization(id, r)
  \/ \E id \in Targets(organizations), r \in Responses : LocalGetOrganization(id, r)

SpecGetOrg == InitOrg /\ [][NextGetOrg]_vars

\* C19: when the backend answers, GetOrganization returns the not-found error
\* exactly when no organization row has the id; when the backend cannot be
\* reached, reports a failure or answers with something that cannot be
\* decoded, it returns an error that is not the not-found error and is of
\* another kind than it.
C19_NotFoundIffAbsent ==
  last.op = "GetOrganization" =>
    /\ last.response = "ok" =>
         (last.err = OrganizationNotFound <=> ~HasRow(organizations, last.id))
    /\ last.response # "ok" =>
         /\ last.err \notin {NoError, OrganizationNotFound}
         /\ last.err.type # OrganizationNotFound.type

\* C19, the part the stores keep: a missing row is reported as the not-found
\* error, a row that is there is returned, and a backend that cannot be
\* reached is never reported as not-found.
C19_AbsenceIsNotFound ==
  last.op = "GetOrganization" =>
    /\ last.response = "ok" =>
         (last.err = OrganizationNotFound <=> ~HasRow(organizations, last.id))
    /\ last.response = "ok" => (last.err = NoError <=> HasRow(organizations, last.id))
    /\ last.response = "unreachable" =>
         /\ last.err \notin {NoError, OrganizationNotFound}
         /\ last.err.type # OrganizationNotFound.type

\* =================================================================
\* Invitations
\* =================================================================
\* time.Now().Add(14*24*time.Hour); the clock of the invitations counts
\* units of fourteen days
InvitationTtl == 1

\* the empty token "" (tokens are numbered like the ids)
NoToken == 0

\* the invitation InviteMember builds, with the token the caller gives it
Invitation(org, email, token) ==
  [id |-> 0, organization_id |-> org, email |-> email, inviter_id |-> "u1",
   token |-> token, status |-> "pending", expires_at |-> now + InvitationTtl,
   accepted_by |-> ""]

HasToken(token) == \E i \in 1..Len(invitations) : invitations[i].token = token

\* the INSERT / POST is accepted: foreign keys to organizations and users, UNIQUE(token)
InvitationInsertAccepted(inv) ==
  /\ HasRow(organizations, inv.organization_id)
  /\ HasRow(users, inv.inviter_id)
  /\ ~HasToken(inv.token)

\* CreateInvitation: the stores with a schema check the row, LocalDatabase
\* fills in an empty token and appends
CreateInvitation(inv, ok) ==
  LET accepted == ok /\ (backend = "local" \/ InvitationInsertAccepted(inv))
      token == IF backend = "local" /\ inv.token = NoToken THEN nextId ELSE inv.token
  IN /\ nextId <= MaxId
     /\ IF accepted
           THEN /\ invitations' = Append(invitations, [inv EXCEPT !.id = nextId, !.token = token])
                /\ nextId' = nextId + 1
           ELSE UNCHANGED <<invitations, nextId>>
     /\ last' = [op |-> "CreateInvitation", id |-> IF accepted THEN nextId ELSE 0,
                 result |-> IF accepted THEN "ok" ELSE "error"]
     /\ UNCHANGED <<now, snapVars, lifeVars, storeVars, orgVars, permissions, callers, locks, connecting>>

\* GetInvitationByToken: the indexes of the rows it can return
GetInvitationByToken(token) ==
  LET found == { i \in 1..Len(invitations) : invitations[i].token = token }
  IN IF found = {} THEN {} ELSE {Min(found)}

\* the table after UpdateInvitation(inv): UPDATE ... SET status, accepted_by,
\* expires_at WHERE id (PATCH ?id=eq. on the REST store); LocalDatabase
\* replaces the whole row
UpdateInvitationRows(inv) ==
  [i \in 1..Len(invitations) |->
     IF invitations[i].id # inv.id THEN invitations[i]
     ELSE IF backend = "local" THEN inv
     ELSE [invitations[i] EXCEPT !.status = inv.status, !.accepted_by = inv.accepted_by,
                                 !.expires_at = inv.expires_at]]

\* the error of UpdateInvitation: only LocalDatabase reports a missing row
UpdateInvitationFails(inv, ok) ==
  ~ok \/ (backend = "local" /\ ~HasRow(invitations, inv.id))

UpdateInvitation(inv, ok) ==
  /\ invitations' = IF UpdateInvitationFails(inv, ok) THEN invitations
                    ELSE UpdateInvitationRows(inv)
  /\ last' = [op |-> "UpdateInvitation", id |-> inv.id, status |-> inv.status,
              result |-> IF UpdateInvitationFails(inv, ok) THEN "error" ELSE "ok"]
  /\ UNCHANGED <<now, nextId, snapVars, lifeVars, storeVars, orgVars, permissions, callers, locks, connecting>>

\* AddOrganizationMember as AcceptInvitation calls it: does it fail
AddMemberFails(org, user, ok) ==
  CASE backend = "postgres" -> ~(ok /\ HasRow(organizations, org) /\ HasRow(users, user))
    [] backend = "supabase" -> ~(ok /\ RestPostMembershipAccepted(org, user))
    [] OTHER -> ~ok

\* ... and the memberships after it
AddMemberRows(org, user) ==
  CASE backend = "postgres" -> PgUpsertMembership(org, user, "member")
    [] backend = "supabase" -> Append(memberships, Membership(nextId, org, user, "member"))
    [] OTHER -> addMembership(Membership(nextId, org, user, "member"))

\* OrgsHandler.AcceptInvitation: POST /api/invitations/accept
AcceptInvitation(user, token, getOk, addOk, updateOk) ==
  LET found == IF getOk THEN GetInvitationByToken(token) ELSE {}
      inv == invitations[CHOOSE i \in found : TRUE]
      accepted == [inv EXCEPT !.status = "accepted", !.accepted_by = user]
      rec(id, status, result) ==
        [op |-> "AcceptInvitation", id |-> id, user |-> user, status |-> status,
         result |-> result]
  IN /\ nextId <= MaxId
     /\ IF token = NoToken
           THEN /\ last' = rec(0, "", "bad request")
                /\ UNCHANGED <<invitations, memberships, nextId>>
        ELSE IF found = {}
           THEN /\ last' = rec(0, "", "not found")
                /\ UNCHANGED <<invitations, memberships, nextId>>
        ELSE IF inv.status # "pending" \/ now > inv.expires_at
           THEN /\ last' = rec(inv.id, inv.status, "bad request")
                /\ UNCHANGED <<invitations, memberships, nextId>>
        ELSE IF AddMemberFails(inv.organization_id, user, addOk)
           THEN /\ last' = rec(inv.id, inv.status, "error")
                /\ UNCHANGED <<invitations, memberships, nextId>>
        ELSE /\ memberships' = AddMemberRows(inv.organization_id, user)
             /\ nextId' = IF Len(memberships') > Len(memberships) THEN nextId + 1 ELSE nextId
             /\ invitations' = IF UpdateInvitationFails(accepted, updateOk) THEN invitations
                               ELSE UpdateInvitationRows(accepted)
             /\ last' = rec(inv.id, inv.status, "ok")
     /\ UNCHANGED <<now, snapVars, lifeVars, storeVars, users, organizations, permissions,
                    callers, locks, connecting>>

\* an organization exists, owned by u1
InitInvite ==
  /\ now = 0
  /\ nextId = 1
  /\ last = [op |-> "init"]
  /\ backend \in {"postgres", "local"}
  /\ InitSnapVars
  /\ InitLifeVars
  /\ InitStoreVars
  /\ users = RegisteredUsers
  /\ organizations = <<OrgRow(0, OrgA("u1"))>>
  /\ memberships = <<Membership(0, 0, "u1", "owner")>>
  /\ InitAuxVars

\* the invitations a caller of UpdateInvitation passes: one it has read, with
\* the status it wants, and one no row has
UpdateInvitationInputs ==
  { [invitations[i] EXCEPT !.status = st] :
      i \in 1..Len(invitations), st \in {"pending", "declined", "expired"} }
  \cup { [Invitation(0, "u2@", NoToken) EXCEPT !.id = UnknownId] }

NextInvite ==
  \/ Tick
  \/ \E ok \in BOOLEAN : CreateInvitation(Invitation(0, "u2@", nextId), ok)
  \/ \E inv \in UpdateInvitationInputs, ok \in BOOLEAN : UpdateInvitation(inv, ok)
  \/ \E token \in {invitations[i].token : i \in 1..Len(invitations)} \cup {NoToken, UnknownId},
        addOk \in BOOLEAN, updateOk \in BOOLEAN :
       AcceptInvitation("u2", token, TRUE, addOk, updateOk)

SpecInvite == InitInvite /\ [][NextInvite]_vars

TerminalStatuses == {"accepted", "declined", "expired"}

\* C20: an invitation whose status is accepted, declined or expired keeps that
\* status in every step, and an AcceptInvitation of it adds no membership.
C20_StatusIsTerminal ==
  [][ \A i \in 1..Len(invitations) :
        invitations[i].status \in TerminalStatuses =>
          /\ i <= Len(invitations')
          /\ invitations'[i].status = invitations[i].status
          /\ (last' # last /\ last'.op = "AcceptInvitation" /\ last'.id = invitations[i].id)
               => memberships' = memberships ]_vars

\* C20, the part the handler keeps: AcceptInvitation changes neither the
\* invitation nor the memberships unless the invitation is pending and not
\* past its expiry, and the only status it writes is accepted.
C20_AcceptOnlyPending ==
  [][ (last' # last /\ last'.op = "AcceptInvitation") =>
        /\ last'.result # "ok" => (invitations' = invitations /\ memberships' = memberships)
        /\ last'.result = "ok" => last'.status = "pending"
        /\ \A i \in 1..Len(invitations) :
             /\ invitations[i].status \in TerminalStatuses => invitations'[i] = invitations[i]
             /\ invitations'[i].status \in {invitations[i].status, "accepted"} ]_vars

\* ---- invitations accepted by any registered user
\* the email of the session's user (middleware.RequireUser)
EmailOf(user) == users[CHOOSE i \in 1..Len(users) : users[i].id = user].email

InvitationOfId(id) == invitations[CHOOSE i \in 1..Len(invitations) : invitations[i].id = id]

NextAccept ==
  \/ Tick
  \/ \E ok \in BOOLEAN : CreateInvitation(Invitation(0, "u2@", nextId), ok)
  \/ \E user \in Users, token \in {invitations[i].token : i \in 1..Len(invitations)} \cup {NoToken, UnknownId},
        addOk \in BOOLEAN, updateOk \in BOOLEAN :
       AcceptInvitation(user, token, TRUE, addOk, updateOk)

SpecAccept == InitInvite /\ [][NextAccept]_vars

\* C21: an AcceptInvitation by a user whose email is not the invitation's
\* fails, adds no membership and leaves the invitations as they are.
C21_AcceptChecksEmail ==
  [][ (/\ last' # last /\ last'.op = "AcceptInvitation" /\ last'.id # 0
       /\ EmailOf(last'.user) # InvitationOfId(last'.id).email)
        => /\ last'.result # "ok"
           /\ memberships' = memberships
           /\ invitations' = invitations ]_vars

\* =================================================================
\* updated_at
\* =================================================================
\* SupabaseDatabase.UpdateSpace: PATCH /spaces?id=eq.<id> on the table spaces;
\* updated_at is set by the trigger update_spaces_updated_at
SbUpdateSpace(id, in, requestOk) ==
  LET where(r) == r.id = id
      set(r) == [r EXCEPT !.name = in.name, !.description = in.description,
                          !.is_default = in.is_default, !.updated_at = now]
  IN /\ backend = "supabase"
     /\ pgSpaces' = IF requestOk THEN UpdateWhere(pgSpaces, where, set) ELSE pgSpaces
     /\ last' = [op |-> "UpdateSpace", id |-> id, result |-> IF requestOk THEN "ok" ELSE "error",
                 existed |-> HasRow(pgSpaces, id)]
     /\ UNCHANGED <<now, nextId, snapVars, lifeVars, orgVars, pgCollections, pgItems, auxVars>>

\* the patches of a title, of nothing, and of unknown keys only
TouchPatches == {"title", "empty", "unknown"}

NextTouch ==
  \/ StoreTick
  \/ \E ok \in BOOLEAN : PgUpdateUser(UserB("u1"), ok)
  \/ \E ok \in BOOLEAN : SbUpdateUser(UserB("u1"), ok)
  \/ \E ok \in BOOLEAN : LocalUpdateUser(UserB("u1"), ok)
  \/ backend # "local" /\ pgSpaces = <<>> /\ CreateSpace(1, SpaceA, TRUE)
  \/ \E id \in IdsOf(pgSpaces) : backend = "postgres" /\ UpdateSpace(id, SpaceB, TRUE)
  \/ \E id \in IdsOf(pgSpaces) : SbUpdateSpace(id, SpaceB, TRUE)
  \/ \E sp \in IdsOf(pgSpaces) :
       backend = "postgres" /\ pgCollections = <<>> /\ CreateCollection(sp, CollectionA, TRUE)
  \/ \E c \in IdsOf(pgCollections) :
       backend = "postgres" /\ pgItems = <<>> /\ CreateCollectionItem(c, ItemA, TRUE)
  \/ \E id \in IdsOf(pgItems), k \in TouchPatches :
       backend = "postgres" /\ UpdateCollectionItemPartial(id, k, 0, TRUE)
  \/ \E id \in IdsOf(pgItems) : backend = "postgres" /\ DeleteCollectionItem(id, TRUE)
  \/ PgSaveSnapshot("u1", "work", <<>>, TRUE)

SpecTouch == InitOrg /\ [][NextTouch]_vars

\* the rows of a table keep or advance their updated_at, and a row that is
\* written gets the clock of the write
UpdatedAtKept(old, new) ==
  \A i \in 1..Len(old), j \in 1..Len(new) :
    old[i].id = new[j].id =>
      /\ new[j].updated_at >= old[i].updated_at
      /\ new[j] # old[i] => new[j].updated_at = now

\* the table a write is on, by the operation
WrittenTable(op, userRows, spaceRows, itemRows) ==
  CASE op = "UpdateUser" -> userRows
    [] op = "UpdateSpace" -> spaceRows
    [] OTHER -> itemRows

\* the writes that are to advance updated_at
MutatingWrite(call) ==
  /\ call.op \in {"UpdateUser", "UpdateSpace", "UpdateCollectionItemPartial", "DeleteCollectionItem"}
  /\ call.result = "ok"
  /\ call.op = "UpdateCollectionItemPartial" =>
       DOMAIN SetClauses(Patch(call.patch[1], call.patch[2])) # {}

C22_WitnessPartial ==
  /\ last.op = "UpdateCollectionItemPartial" /\ last.result = "ok" /\ last.existed
  /\ last.patch[1] = "title"
  /\ \E r \in Range(pgItems) : r.id = last.id /\ r.updated_at = now /\ r.created_at < now

\* =================================================================
\* Partial updates that assign nothing
\* =================================================================
\* patches with no assignment (nothing, unknown keys, nil texts and a blank
\* collection_id, a move to the blank collection), and one with an assignment
NoopPatches == { <<"empty", 0>>, <<"unknown", 0>>, <<"nil", 0>>, <<"move", 0>>, <<"title", 0>> }

NextNoop ==
  \/ StoreTick
  \/ pgSpaces = <<>> /\ CreateSpace(1, SpaceA, TRUE)
  \/ \E sp \in IdsOf(pgSpaces) : pgCollections = <<>> /\ CreateCollection(sp, CollectionA, TRUE)
  \/ \E c \in IdsOf(pgCollections) : CreateCollectionItem(c, ItemA, TRUE)
  \/ \E id \in Targets(pgItems) \cup {0}, p \in NoopPatches, ok \in BOOLEAN :
       UpdateCollectionItemPartial(id, p[1], p[2], ok)

SpecNoop == InitStore /\ [][NextNoop]_vars

\* the call carried a patch none of whose entries is an assignment
ZeroAssignments(call) ==
  /\ call.op = "UpdateCollectionItemPartial"
  /\ call.patch \in NoopPatches \ { <<"title", 0>> }

\* C23 as stated: UpdateCollectionItemPartial with a patch that yields no
\* assignment returns success and leaves every item as it is, whatever the id.
C23_EmptyPatchIsNoop ==
  [][ (now' = now /\ ZeroAssignments(last')) =>
        /\ last'.result = "ok"
        /\ pgItems' = pgItems ]_vars

\* C23 (amended): with a non-blank item id, UpdateCollectionItemPartial with a
\* patch that yields no assignment returns success, whether or not a row has
\* the id and whether or not the store can be reached, and leaves every item
\* as it is, updated_at included; with a blank item id it returns the error
\* "item id required" and leaves every item as it is.
C23_EmptyPatchWithIdIsNoop ==
  [][ (now' = now /\ ZeroAssignments(last')) =>
        /\ pgItems' = pgItems
        /\ last'.result = IF last'.id = 0 THEN "item id required" ELSE "ok" ]_vars

\* a patch of nil values on an item created earlier, with the store unreachable
C23_Witness ==
  /\ ZeroAssignments(last) /\ last.patch[1] = "nil" /\ last.result = "ok" /\ last.existed
  /\ \E r \in Range(pgItems) : r.id = last.id /\ r.updated_at < now

\* an empty patch for an id no row has
C23_WitnessUnknown ==
  /\ ZeroAssignments(last) /\ last.patch[1] = "empty" /\ last.result = "ok"
  /\ last.id # 0 /\ ~last.existed

(***************************************************************************)
(* NewPostgresDatabase, one loop iteration at a time                       *)
(***************************************************************************)

\* strategies: the parameters addConnectionParams appends to the DSN, in the
\* order of the slice; the last entry is the DSN as given
strategies ==
  << "prefer_simple_protocol=true",
     "prefer_simple_protocol=true&connect_timeout=10",
     "sslmode=require&prefer_simple_protocol=true",
     "" >>

\* what sql.Open and db.Ping may meet for each of the strategies
ConnectOutcomes == [1..Len(strategies) -> {"ok", "open_fail", "ping_fail"}]

\* the ping-failure branch without db.Close()
PingFailedKeepsHandle(c) ==
  [c EXCEPT !.i = c.i + 1, !.tried = Append(c.tried, strategies[c.i]),
            !.opened = c.opened \cup {c.i}]

\* the ping-failure branch: db.Close(), continue
PingFailed(c) ==
  [c EXCEPT !.i = c.i + 1, !.tried = Append(c.tried, strategies[c.i]),
            !.opened = c.opened \cup {c.i}, !.closed = c.closed \cup {c.i}]

\* entry of NewPostgresDatabase: the slice is built, the loop has not started
ConnectStart(outcomes) ==
  /\ connecting.pc = "idle"
  /\ connecting' = [pc |-> "loop", i |-> 1, outcomes |-> outcomes, tried |-> <<>>,
                    opened |-> {}, closed |-> {}, kept |-> 0]
  /\ UNCHANGED <<now, nextId, last, snapVars, lifeVars, storeVars, orgVars,
                 permissions, callers, locks, invitations>>

\* one iteration of the loop over strategies
ConnectTry ==
  /\ connecting.pc = "loop"
  /\ connecting.i <= Len(strategies)
  /\ LET c == connecting
         outcome == c.outcomes[c.i]
     IN connecting' =
          CASE outcome = "open_fail" ->
                 [c EXCEPT !.i = c.i + 1, !.tried = Append(c.tried, strategies[c.i])]
            [] outcome = "ping_fail" -> PingFailed(c)
            [] OTHER ->
                 [c EXCEPT !.pc = "returned", !.tried = Append(c.tried, strategies[c.i]),
                           !.opened = c.opened \cup {c.i}, !.kept = c.i]
  /\ UNCHANGED <<now, nextId, last, snapVars, lifeVars, storeVars, orgVars,
                 permissions, callers, locks, invitations>>

\* the statement after the loop: panic
ConnectPanic ==
  /\ connecting.pc = "loop"
  /\ connecting.i > Len(strategies)
  /\ connecting' = [connecting EXCEPT !.pc = "panic"]
  /\ UNCHANGED <<now, nextId, last, snapVars, lifeVars, storeVars, orgVars,
                 permissions, callers, locks, invitations>>

InitConnect == InitOrg

NextConnect ==
  \/ \E outcomes \in ConnectOutcomes : ConnectStart(outcomes)
  \/ ConnectTry
  \/ ConnectPanic

SpecConnect == InitConnect /\ [][NextConnect]_vars

\* the handles that are open and not closed
OpenHandles == connecting.opened \ connecting.closed

\* C24: the variants are tried in the order of the slice and at most once each;
\* between attempts no opened handle is left open; the constructor returns with
\* the first variant that opens and answers the ping, that handle being the
\* only open one; it panics exactly when all four variants fail
C24_FirstWorkingVariantIsKept ==
  connecting.pc # "idle" =>
    /\ Len(connecting.tried) <= 4
    /\ connecting.tried = SubSeq(strategies, 1, Len(connecting.tried))
    /\ connecting.pc = "loop" =>
         /\ OpenHandles = {}
         /\ \A j \in 1..(connecting.i - 1) : connecting.outcomes[j] # "ok"
    /\ connecting.pc = "returned" =>
         /\ connecting.kept = NewPostgresDatabase(connecting.outcomes)
         /\ connecting.outcomes[connecting.kept] = "ok"
         /\ OpenHandles = {connecting.kept}
         /\ Len(connecting.tried) = connecting.kept
    /\ connecting.pc = "panic" =>
         /\ \A j \in 1..4 : connecting.outcomes[j] # "ok"
         /\ Len(connecting.tried) = 4
         /\ OpenHandles = {}
    /\ (\A j \in 1..4 : connecting.outcomes[j] # "ok") => connecting.pc # "returned"
    /\ (\E j \in 1..4 : connecting.outcomes[j] = "ok") => connecting.pc # "panic"

\* the third variant is kept after one handle that failed its ping was closed
C24_Witness ==
  /\ connecting.pc = "returned" /\ connecting.kept = 3
  /\ connecting.closed = {1} /\ connecting.outcomes[2] = "open_fail"

\* all four variants failed, two of them after opening
C24_WitnessPanic ==
  /\ connecting.pc = "panic" /\ connecting.closed = {2, 4}

\* C24 (termination): a construction that has started returns or panics
C24_Terminates == (connecting.pc = "loop") ~> (connecting.pc \in {"returned", "panic"})

\* the loop and the statement after it are always scheduled
FairConnect == SpecConnect /\ WF_vars(ConnectTry) /\ WF_vars(ConnectPanic)

\* =================================================================
\* ListUserOrganizations
\* =================================================================
\* the result of a ListUserOrganizations: `listed` maps each organization id
\* of the result to the number of times the result holds it (the order of the
\* result is left out); `fetches` are the responses the backend gave
ListCall(user, fetches, ok, listed) ==
  [op |-> "ListUserOrganizations", user |-> user, fetches |-> fetches,
   result |-> IF ok THEN "ok" ELSE "error", listed |-> IF ok THEN listed ELSE <<>>]

\* the memberships of the user
MembershipsOf(user) == {i \in 1..Len(memberships) : memberships[i].user_id = user}

\* organizations o LEFT JOIN organization_memberships m ON m.organization_id = o.id
\* WHERE o.owner_id = $1 OR m.user_id = $1: the number of joined rows of one
\* organization that pass the WHERE
JoinedRows(o, user) ==
  LET ms == {i \in 1..Len(memberships) : memberships[i].organization_id = o.id}
  IN IF ms = {} THEN (IF o.owner_id = user THEN 1 ELSE 0)
     ELSE Cardinality({i \in ms : o.owner_id = user \/ memberships[i].user_id = user})

\* the SELECT without DISTINCT: one result row for each joined row
SelectAll(n) == n

\* SELECT DISTINCT over the columns of o
SelectDistinct(n) == IF n > 0 THEN 1 ELSE 0

\* the rows PostgresDatabase.ListUserOrganizations scans
PgListed(user) ==
  LET rows == {i \in 1..Len(organizations) : JoinedRows(organizations[i], user) > 0}
  IN [id \in {organizations[i].id : i \in rows} |->
        SelectDistinct(JoinedRows(organizations[Min(RowsWithId(organizations, id))], user))]

PgListUserOrganizations(user, response) ==
  /\ backend = "postgres"
  /\ last' = ListCall(user, <<response>>, response = "ok", PgListed(user))
  /\ UNCHANGED <<now, nextId, snapVars, lifeVars, storeVars, orgVars, auxVars>>

\* GET /organizations?owner_id=eq.<user>: the error of json.Unmarshal is dropped
SbOwned(user, response) ==
  IF response = "unparsable" THEN {}
  ELSE {organizations[i].id : i \in {j \in 1..Len(organizations) : organizations[j].owner_id = user}}

\* GET /organization_memberships?user_id=eq.<user>&select=organization_id
SbJoined(user, response) ==
  IF response = "unparsable" THEN {}
  ELSE {memberships[i].organization_id : i \in MembershipsOf(user)}

\* two fetches, the ids merged in a map, then one GET /organizations?id=eq.<id>
\* for each id; `failing` are the ids whose GET fails
SbListed(user, owned, joined, failing) ==
  IF SbMakeRequest(joined) # NoError
     THEN [id \in SbOwned(user, owned) |-> 1]
     ELSE [id \in {x \in SbOwned(user, owned) \cup SbJoined(user, joined) :
                     x \notin failing /\ HasRow(organizations, x)} |-> 1]

SbListUserOrganizations(user, owned, joined, failing) ==
  /\ backend = "supabase"
  /\ last' = ListCall(user,
                IF SbMakeRequest(owned) # NoError THEN <<owned>>
                ELSE IF SbMakeRequest(joined) # NoError \/ failing = {} THEN <<owned, joined>>
                ELSE <<owned, joined, "failure">>,
                SbMakeRequest(owned) = NoError, SbListed(user, owned, joined, failing))
  /\ UNCHANGED <<now, nextId, snapVars, lifeVars, storeVars, orgVars, auxVars>>

\* loadAllOrganizations, loadAllMemberships, then the organizations in file order
LocalListed(user) ==
  LET joined == {memberships[i].organization_id : i \in MembershipsOf(user)}
      rows(id) == {i \in RowsWithId(organizations, id) :
                     organizations[i].owner_id = user \/ id \in joined}
  IN [id \in {x \in IdsOf(organizations) : rows(x) # {}} |-> Cardinality(rows(id))]

LocalListUserOrganizations(user, orgsFile, membershipsFile) ==
  /\ backend = "local"
  /\ last' = ListCall(user,
                IF orgsFile = "ok" THEN <<orgsFile, membershipsFile>> ELSE <<orgsFile>>,
                orgsFile = "ok" /\ membershipsFile = "ok", LocalListed(user))
  /\ UNCHANGED <<now, nextId, snapVars, lifeVars, storeVars, orgVars, auxVars>>

\* the responses of a REST fetch that the listing tells apart
FetchResponses == {"ok", "unreachable", "unparsable"}

NextList ==
  \/ \E u \in Users, memOk \in BOOLEAN : PgCreateOrganization(u, TRUE, memOk)
  \/ \E u \in Users, memOk \in BOOLEAN : SbCreateOrganization(u, TRUE, memOk)
  \/ \E u \in Users, fail \in {"none", "memberships"} : LocalCreateOrganization(u, fail)
  \/ \E org \in IdsOf(organizations), u \in Users : PgAddOrganizationMember(org, u, "member", TRUE)
  \/ \E org \in IdsOf(organizations), u \in Users : SbAddOrganizationMember(org, u, "member", TRUE)
  \/ \E org \in IdsOf(organizations), u \in Users : LocalAddOrganizationMember(org, u, "member", TRUE)
  \/ \E u \in Users, r \in {"ok", "unreachable"} : PgListUserOrganizations(u, r)
  \/ \E u \in Users, owned \in FetchResponses, joined \in FetchResponses,
        failing \in SUBSET IdsOf(organizations) :
       SbListUserOrganizations(u, owned, joined, failing)
  \/ \E u \in Users, o \in {"ok", "unreachable"}, m \in {"ok", "unreachable"} :
       LocalListUserOrganizations(u, o, m)

SpecList == InitOrg /\ [][NextList]_vars

\* the organizations the user owns or has a membership in
OwnedOrJoined(user) ==
  {organizations[i].id : i \in {j \in 1..Len(organizations) :
      \/ organizations[j].owner_id = user
      \/ \E k \in MembershipsOf(user) : memberships[k].organization_id = organizations[j].id}}

\* C25: a ListUserOrganizations that succeeds returns the organizations the
\* user owns or has a membership in, each once; the REST-Store result is the
\* result of the Structured-Store query on the same tables; and a call in
\* which a fetch failed does not succeed.
C25_ListIsUnionOrError ==
  last.op = "ListUserOrganizations" =>
    /\ last.result = "ok" =>
         /\ DOMAIN last.listed = OwnedOrJoined(last.user)
         /\ \A id \in DOMAIN last.listed : last.listed[id] = 1
         /\ backend = "supabase" => last.listed = PgListed(last.user)
    /\ (\E i \in 1..Len(last.fetches) : last.fetches[i] # "ok") => last.result = "error"

\* C25, the part every store keeps: when every fetch is answered and decoded,
\* the result is the union, each organization once, and the REST-Store result
\* is the Structured-Store result.
C25_ListIsUnionWhenAnswered ==
  (last.op = "ListUserOrganizations" /\ \A i \in 1..Len(last.fetches) : last.fetches[i] = "ok") =>
    /\ last.result = "ok"
    /\ DOMAIN last.listed = OwnedOrJoined(last.user)
    /\ \A id \in DOMAIN last.listed : last.listed[id] = 1
    /\ backend = "supabase" => last.listed = PgListed(last.user)

\* a user that owns one organization and is a member of another lists both
C25_WitnessBoth ==
  /\ last.op = "ListUserOrganizations" /\ last.result = "ok"
  /\ backend = "supabase" /\ Cardinality(DOMAIN last.listed) = 2
  /\ \E i \in 1..Len(organizations) : organizations[i].owner_id # last.user

\* =================================================================
\* The role of the owner
\* =================================================================
NextOwner ==
  \/ \E memOk \in BOOLEAN : PgCreateOrganization("u1", TRUE, memOk)
  \/ \E memOk \in BOOLEAN : SbCreateOrganization("u1", TRUE, memOk)
  \/ \E fail \in {"none", "memberships"} : LocalCreateOrganization("u1", fail)
  \/ \E org \in IdsOf(organizations), u \in Users : PgAddOrganizationMember(org, u, "admin", TRUE)
  \/ \E org \in IdsOf(organizations), u \in Users : SbAddOrganizationMember(org, u, "admin", TRUE)
  \/ \E org \in IdsOf(organizations), u \in Users : LocalAddOrganizationMember(org, u, "admin", TRUE)
  \/ \E org \in IdsOf(organizations), email \in {"u1@", "u2@"} :
       CreateInvitation(Invitation(org, email, nextId), TRUE)
  \/ \E user \in Users, token \in {invitations[i].token : i \in 1..Len(invitations)},
        updateOk \in BOOLEAN :
       AcceptInvitation(user, token, TRUE, TRUE, updateOk)

\* user u1 has created an organization
InitOwner ==
  /\ now = 0
  /\ nextId = 1
  /\ last = [op |-> "init"]
  /\ backend \in {"postgres", "supabase", "local"}
  /\ InitSnapVars
  /\ InitLifeVars
  /\ InitStoreVars
  /\ users = RegisteredUsers
  /\ organizations = <<OrgRow(0, OrgA("u1"))>>
  /\ memberships = <<Membership(0, 0, "u1", "owner")>>
  /\ InitAuxVars

SpecOwner == InitOwner /\ [][NextOwner]_vars

\* the rows of organization_memberships that give the user that role in the organization
RoleRows(rows, org, user, role) ==
  {i \in 1..Len(rows) : rows[i].organization_id = org /\ rows[i].user_id = user
                        /\ rows[i].role = role}

\* C26: a membership with role 'owner' of the owner of an organization stays:
\* after every step the owner still has a membership of role 'owner' in it.
C26_OwnerKeepsRole ==
  [][\A o \in 1..Len(organizations) :
       RoleRows(memberships, organizations[o].id, organizations[o].owner_id, "owner") # {}
         => RoleRows(memberships', organizations[o].id, organizations[o].owner_id, "owner") # {}]_vars

\* C26 on the stores that do not overwrite a membership: the REST store answers
\* the second POST of a pair with a conflict, the file store appends a row
C26_OwnerKeepsRoleWithoutUpsert ==
  [][backend # "postgres" =>
       \A o \in 1..Len(organizations) :
         RoleRows(memberships, organizations[o].id, organizations[o].owner_id, "owner") # {}
           => RoleRows(memberships', organizations[o].id, organizations[o].owner_id, "owner") # {}]_vars

\* the owner has accepted an invitation to the organization
C26_OwnerAccepted ==
  /\ last.op = "AcceptInvitation" /\ last.result = "ok" /\ last.user = "u1"
  /\ RoleRows(memberships, 0, "u1", "owner") = {}

\* =================================================================
\* The key of the connection cache
\* =================================================================
\* the fields of a configuration that name the store to connect to
Connects(config) == <<config.PostgresDSN, config.SupabaseURL, config.SupabaseKey>>

\* C27: the instance GetOptimizedConnection returns was built from the
\* configuration of the call, and a configuration with the key of the call has
\* the PostgresDSN, SupabaseURL and SupabaseKey of the call.
C27_CacheKeyIsInjective ==
  (last.op = "GetOptimizedConnection" /\ last.result = "ok") =>
    /\ Connects(instances[last.instance].config) = Connects(last.config)
    /\ \A c \in Configs :
         generateConfigKey(c) = generateConfigKey(last.config) => Connects(c) = Connects(last.config)

\* C27 without the comparison of keys: a call that builds the instance gets
\* one built from its configuration
C27_NewInstanceIsOfTheCall ==
  (last.op = "GetOptimizedConnection" /\ last.result = "ok" /\ ~last.reused) =>
    instances[last.instance].config = last.config

\* =================================================================
\* Requests that use the instance they were handed
\* =================================================================
\* Handler after GetOptimizedDatabase has returned: router.ServeHTTP issues a
\* storage call on db
ServeHTTP(g) ==
  /\ callers[g].pc = "done"
  /\ callers[g].result = "ok"
  /\ last' = [op |-> "StorageCall", goroutine |-> g, instance |-> callers[g].instance,
              closed |-> instances[callers[g].instance].closed]
  /\ UNCHANGED <<now, nextId, snapVars, lifeVars, storeVars, orgVars, auxVars>>

\* the configuration of the process, and a second one
ServeConfigs ==
  { DatabaseConfig(DsnA, Empty, Empty, FALSE),
    DatabaseConfig(Empty, UrlA, KeyA, FALSE) }

NextServe ==
  \/ Tick
  \/ \E g \in Goroutines, c \in ServeConfigs : AcquireCall(g, c)
  \/ \E g \in Goroutines : AcquireLock(g)
  \/ \E g \in Goroutines, h \in BOOLEAN : AcquireCheck(g, h)
  \/ \E g \in Goroutines : AcquireCreate(g, <<"ok", "ok", "ok", "ok">>)
  \/ \E g \in Goroutines : AcquireUnlock(g)
  \/ \E g \in Goroutines : ServeHTTP(g)
  \/ \E g \in Goroutines : AcquireReturn(g)
  \/ locks.poolMutex = 0 /\ CleanupIdleConnections
  \/ locks.mu = 0 /\ cleanupExpiredConnections
  \/ locks.mu = 0 /\ ForceCleanup

SpecServe == InitAcquire /\ [][NextServe]_vars

\* the request of the goroutine holds an instance: GetOptimizedDatabase has
\* returned it and the handler has not returned
InUse(g) == callers[g].pc = "done" /\ callers[g].result = "ok"

\* C28: an instance a request holds is not closed, and no storage call is
\* issued on a closed instance.
C28_InstanceInUseIsNotClosed ==
  /\ \A g \in Goroutines : InUse(g) => ~instances[callers[g].instance].closed
  /\ last.op = "StorageCall" => ~last.closed

\* C28 for the hand-over alone: at the moment GetOptimizedDatabase unlocks, the
\* instance it returns is open
C28_InstanceIsOpenWhenHanded ==
  \A g \in Goroutines :
    (callers[g].pc = "unlock" /\ callers[g].result = "ok") =>
      ~instances[callers[g].instance].closed

\* a storage call on an instance that a later GetDatabase has closed
C28_ClosedUnderRequest ==
  /\ last.op = "StorageCall" /\ last.closed
  /\ ~isVercelEnvironment(env) /\ globalPool # NoPool
  /\ globalPool.instance # last.instance

\* =================================================================
\* Concurrent AcceptInvitation requests
\* =================================================================
\* the request the goroutine serves is at that position with these locals
Accepting(pc, user, inv) == [pc |-> pc, user |-> user, inv |-> inv]

\* the token is read, GetInvitationByToken is called and the status and the
\* expiry are checked; a request that fails here is answered at once
AcceptGet(g, user, token) ==
  LET found == GetInvitationByToken(token)
      inv == invitations[CHOOSE i \in found : TRUE]
      rec(result) == [op |-> "AcceptInvitation", goroutine |-> g, user |-> user,
                      result |-> result]
  IN /\ callers[g].pc = "idle"
     /\ IF token = NoToken THEN /\ last' = rec("bad request")
                                /\ UNCHANGED callers
        ELSE IF found = {} THEN /\ last' = rec("not found")
                                /\ UNCHANGED callers
        ELSE IF inv.status # "pending" \/ now > inv.expires_at
           THEN /\ last' = rec("bad request")
                /\ UNCHANGED callers
        ELSE /\ callers' = [callers EXCEPT ![g] = Accepting("add", user, inv)]
             /\ UNCHANGED last
     /\ UNCHANGED <<now, nextId, snapVars, lifeVars, storeVars, orgVars, permissions, restVars>>

\* h.db.AddOrganizationMember with RoleMember
AcceptAdd(g, addOk) ==
  LET inv == callers[g].inv
      user == callers[g].user
  IN /\ callers[g].pc = "add"
     /\ nextId <= MaxId
     /\ IF AddMemberFails(inv.organization_id, user, addOk)
           THEN /\ callers' = [callers EXCEPT ![g] = Idle]
                /\ last' = [op |-> "AcceptInvitation", goroutine |-> g, user |-> user,
                            result |-> "error"]
                /\ UNCHANGED <<memberships, nextId>>
           ELSE /\ memberships' = AddMemberRows(inv.organization_id, user)
                /\ nextId' = IF Len(memberships') > Len(memberships) THEN nextId + 1 ELSE nextId
                /\ callers' = [callers EXCEPT ![g].pc = "update"]
                /\ UNCHANGED last
     /\ UNCHANGED <<now, snapVars, lifeVars, storeVars, users, organizations, permissions, restVars>>

\* inv.Status = accepted, inv.AcceptedBy = user, UpdateInvitation (its error is
\* logged), and the 200 response; the goroutine stays at "accepted"
AcceptUpdate(g, updateOk) ==
  LET accepted == [callers[g].inv EXCEPT !.status = "accepted", !.accepted_by = callers[g].user]
  IN /\ callers[g].pc = "update"
     /\ invitations' = IF UpdateInvitationFails(accepted, updateOk) THEN invitations
                       ELSE UpdateInvitationRows(accepted)
     /\ callers' = [callers EXCEPT ![g] = Accepting("accepted", callers[g].user, accepted)]
     /\ last' = [op |-> "AcceptInvitation", goroutine |-> g, user |-> callers[g].user,
                 result |-> "ok"]
     /\ UNCHANGED <<now, nextId, snapVars, lifeVars, storeVars, orgVars, permissions,
                    locks, connecting>>

\* the user whose session the goroutine serves
SessionOf(g) == IF g = 1 THEN "u2" ELSE "u1"

NextAcceptRace ==
  \/ Tick
  \/ \E ok \in BOOLEAN : CreateInvitation(Invitation(0, "u2@", nextId), ok)
  \/ \E g \in Goroutines,
        token \in {invitations[i].token : i \in 1..Len(invitations)} \cup {NoToken, UnknownId} :
       AcceptGet(g, SessionOf(g), token)
  \/ \E g \in Goroutines, addOk \in BOOLEAN : AcceptAdd(g, addOk)
  \/ \E g \in Goroutines : AcceptUpdate(g, TRUE)

SpecAcceptRace == InitInvite /\ [][NextAcceptRace]_vars

\* the goroutine has passed the check of the invitation, and has added a membership
PassedCheck(g) == callers[g].pc \in {"add", "update", "accepted"}
AddedMembership(g) == callers[g].pc \in {"update", "accepted"}

\* C29: of the requests that carry the token of one invitation, at most one
\* passes the pending/expiry check and adds a membership.
C29_TokenAcceptedOnce ==
  \A g1, g2 \in Goroutines :
    (AddedMembership(g1) /\ AddedMembership(g2) /\ callers[g1].inv.id = callers[g2].inv.id)
      => g1 = g2

\* C29 for requests that do not overlap: a request that reads the invitation
\* after another has stored its acceptance is rejected
C29_AcceptedTokenIsRejected ==
  [][\A g \in Goroutines :
       (callers[g].pc = "idle" /\ callers'[g].pc = "add")
         => \A i \in 1..Len(invitations) :
              invitations[i].id = callers'[g].inv.id => invitations[i].status = "pending"]_vars

\* two requests of different users were answered 200 for one invitation
C29_TwoAcceptances ==
  /\ callers[1].pc = "accepted" /\ callers[2].pc = "accepted"
  /\ callers[1].inv.id = callers[2].inv.id
  /\ callers[1].user # callers[2].user

\* =================================================================
\* Tombstones
\* =================================================================
\* one space, one collection and one item, updated and deleted
NextTombstone ==
  \/ StoreTick
  \/ pgSpaces = <<>> /\ \E org \in OrgIds : CreateSpace(org, SpaceA, TRUE)
  \/ pgCollections = <<>> /\ \E sp \in IdsOf(pgSpaces) : CreateCollection(sp, CollectionA, TRUE)
  \/ pgItems = <<>> /\ \E c \in IdsOf(pgCollections) : CreateCollectionItem(c, ItemA, TRUE)
  \/ \E id \in IdsOf(pgCollections) : UpdateCollection(id, CollectionB, TRUE)
  \/ \E id \in IdsOf(pgItems) : UpdateCollectionItem(id, ItemB, TRUE)
  \/ \E id \in IdsOf(pgItems), k \in {"title", "undelete"} :
       UpdateCollectionItemPartial(id, k, 0, TRUE)
  \/ \E id \in IdsOf(pgItems), c \in IdsOf(pgCollections) :
       UpdateCollectionItemPartial(id, "move", c, TRUE)
  \/ \E id \in IdsOf(pgCollections), fail \in {"none", "commit"} : DeleteCollection(id, fail)
  \/ \E id \in IdsOf(pgItems) : DeleteCollectionItem(id, TRUE)

SpecTombstone == InitStore /\ [][NextTombstone]_vars

\* the ids of the rows of the table that carry a tombstone
Tombstoned(table) == { table[i].id : i \in {j \in 1..Len(table) : table[j].deleted_at.Valid} }

\* the ids a client sees when it lists without a cutoff: the collections of
\* every space, the items of every collection
ListedCollections ==
  UNION { IdsOf(ListCollections(sp, NoSince, DefaultPage, DefaultPageSize)) : sp \in IdsOf(pgSpaces) }

ListedItems ==
  UNION { IdsOf(ListItemsByCollection(c)) : c \in IdsOf(pgCollections) }

\* C30: a collection or item that carries a tombstone carries one after every
\* storage operation, and is in no listing without a cutoff after it.
C30_TombstonesArePermanent ==
  [][/\ Tombstoned(pgCollections) \subseteq Tombstoned(pgCollections')
     /\ Tombstoned(pgItems) \subseteq Tombstoned(pgItems')
     /\ Tombstoned(pgCollections) \cap ListedCollections' = {}
     /\ Tombstoned(pgItems) \cap ListedItems' = {}]_vars

\* a full update has been applied to an item that carries a tombstone
C30_Witness ==
  /\ last.op = "UpdateCollectionItem" /\ last.result = "ok"
  /\ last.id \in Tombstoned(pgItems)
  /\ \E i \in 1..Len(pgItems) :
       pgItems[i].id = last.id /\ pgItems[i].updated_at > pgItems[i].deleted_at.Time

\* a partial update that names deleted_at has been applied to a deleted item
C30_WitnessPartial ==
  /\ last.op = "UpdateCollectionItemPartial" /\ last.result = "ok"
  /\ last.patch[1] = "undelete" /\ last.id \in Tombstoned(pgItems)

\* a deleted collection has been updated and deleted again
C30_WitnessCollection ==
  /\ last.op \in {"UpdateCollection", "DeleteCollection"} /\ last.result = "ok"
  /\ \E i \in 1..Len(pgCollections) :
       /\ pgCollections[i].id = last.id
       /\ pgCollections[i].deleted_at.Valid
       /\ pgCollections[i].updated_at > pgCollections[i].created_at
       /\ pgCollections[i].deleted_at.Time < now \/ last.op = "DeleteCollection"

====
